---------------------------- MODULE Spec2Model ----------------------------
(***************************************************************************)
(* A model of the dated species tree of GeneRaxCore (trees/DatedTree.cpp)  *)
(* and of the dating search built on it                                    *)
(* (search/DatedSpeciesTreeSearch.cpp).                                    *)
(*                                                                         *)
(* Vectors are 0-indexed functions, as in the source.  Nodes are named by  *)
(* their node_index.                                                       *)
(***************************************************************************)
EXTENDS Integers, Sequences, FiniteSets, TLC

\* ------------------------------------------------------------------ bounds
\* the trees have 2 .. MaxLeaves leaves
MaxLeaves == 5

\* unsigned int arithmetic wraps modulo UIntMod.  The source's modulus is
\* 2^32; TLC's integers are 32-bit signed, so the model wraps at 2^30, which
\* is as far above every vector size as 2^32 is.
UIntMod == 1073741824

\* a null pointer (parent of the root, children of a leaf)
Nil == -1

\* the largest count of a transfer in the transfer frequencies
MaxCount == 2

\* the tabulated evaluators score a dating 0 .. MaxScore, on the trees of up
\* to TableLeaves leaves
MaxScore == 3

TableLeaves == 4

\* the dated trees of the root search have 2 .. RootLeaves leaves
RootLeaves == 4

\* rootSearch is called with maxDepth in 1 .. MaxDepth
MaxDepth == 3

\* getBestDatingsFromReconciliation is called with toTest in 0 .. MaxTest
MaxTest == 2

\* getTransferScore runs on 1 .. MaxWorkers workers
MaxWorkers == 4

\* optimizeDates is called up to MaxCalls times in a row
MaxCalls == 2

\* ---------------------------------------------------- the rooted tree layer
\* A rooted binary tree: n nodes, indexed 0 .. n-1 by node_index, with
\* parent / left / right pointers (Nil where absent).
\*
\* Trees are grown from a single leaf by splitting leaves in increasing
\* order of creation, which yields every ordered binary shape once.
Leaf0 ==
  [n |-> 1, parent |-> [i \in {0} |-> Nil], left |-> [i \in {0} |-> Nil],
   right |-> [i \in {0} |-> Nil]]

SplitLeaf(t, l) ==
  [n |-> t.n + 2,
   parent |-> [i \in 0 .. t.n + 1 |-> IF i < t.n THEN t.parent[i] ELSE l],
   left |-> [i \in 0 .. t.n + 1 |->
               IF i = l THEN t.n ELSE IF i < t.n THEN t.left[i] ELSE Nil],
   right |-> [i \in 0 .. t.n + 1 |->
               IF i = l THEN t.n + 1 ELSE IF i < t.n THEN t.right[i] ELSE Nil]]

RECURSIVE Shapes(_)
\* pairs <<shape, last split node>> with L leaves
Shapes(L) ==
  IF L = 1 THEN {<<Leaf0, -1>>}
  ELSE UNION {{<<SplitLeaf(p[1], l), l>> :
                  l \in {x \in 0 .. p[1].n - 1 : p[1].left[x] = Nil /\ x > p[2]}} :
              p \in Shapes(L - 1)}

\* node_index as the tree library numbers it: the leaves first (0 .. L-1),
\* then the inner nodes, the root last.
NodeIndex(s, c) ==
  IF s.left[c] = Nil
  THEN Cardinality({x \in 0 .. c - 1 : s.left[x] = Nil})
  ELSE (s.n + 1) \div 2 + Cardinality({x \in c + 1 .. s.n - 1 : s.left[x] # Nil})

Relabel(s) ==
  LET idx == [c \in 0 .. s.n - 1 |-> NodeIndex(s, c)]
      inv == [i \in 0 .. s.n - 1 |-> CHOOSE c \in 0 .. s.n - 1 : idx[c] = i]
      ptr(c) == IF c = Nil THEN Nil ELSE idx[c]
  IN [n |-> s.n,
      root |-> idx[0],
      parent |-> [i \in 0 .. s.n - 1 |-> ptr(s.parent[inv[i]])],
      left |-> [i \in 0 .. s.n - 1 |-> ptr(s.left[inv[i]])],
      right |-> [i \in 0 .. s.n - 1 |-> ptr(s.right[inv[i]])]]

Trees == UNION {{Relabel(p[1]) : p \in Shapes(L)} : L \in 2 .. MaxLeaves}

Nodes(t) == 0 .. t.n - 1

IsLeaf(t, x) == t.left[x] = Nil

Leaves(t) == {x \in Nodes(t) : IsLeaf(t, x)}

Inner(t) == {x \in Nodes(t) : ~IsLeaf(t, x)}

\* PLLRootedTree::getInnerNodeNumber
getInnerNodeNumber(t) == Cardinality(Inner(t))

RECURSIVE getPostOrderNodesFrom(_, _)
getPostOrderNodesFrom(t, x) ==
  IF IsLeaf(t, x) THEN <<x>>
  ELSE getPostOrderNodesFrom(t, t.left[x]) \o getPostOrderNodesFrom(t, t.right[x])
         \o <<x>>

\* PLLRootedTree::getPostOrderNodes
getPostOrderNodes(t) == getPostOrderNodesFrom(t, t.root)

RECURSIVE LinExtFrom(_, _)
\* the orders of the inner nodes that put every parent before its children
LinExtFrom(t, placed) ==
  LET done == {placed[k] : k \in 1 .. Len(placed)}
      avail == {x \in Inner(t) \ done : t.parent[x] = Nil \/ t.parent[x] \in done}
  IN IF avail = {} THEN {placed}
     ELSE UNION {LinExtFrom(t, Append(placed, x)) : x \in avail}

LinExts(t) == LinExtFrom(t, <<>>)

RECURSIVE SortedSeq(_)
SortedSeq(S) ==
  IF S = {} THEN <<>>
  ELSE LET m == CHOOSE x \in S : \A y \in S : x <= y
       IN <<m>> \o SortedSeq(S \ {m})

Reverse(s) == [k \in 1 .. Len(s) |-> s[Len(s) + 1 - k]]

\* the order of the leaves is not specified and no operation reads it: the
\* leaves are modelled in the order of their node_index, reversed
LeafOrders(t) == {Reverse(SortedSeq(Leaves(t)))}

\* PLLRootedTree::getOrderedSpeciations: the inner nodes in an order
\* consistent with the topology (root first), followed by the leaves
getOrderedSpeciations(t) == {e \o l : e \in LinExts(t), l \in LeafOrders(t)}

\* a std::vector from a sequence
Vec(s) == [k \in 0 .. Len(s) - 1 |-> s[k + 1]]


\* ------------------------------------------------------------------ state
VARIABLES
  tree,                \* DatedTree::_rootedTree
  fromBL,              \* DatedTree::_fromBL
  orderedSpeciations,  \* DatedTree::_orderedSpeciations
  ranks,               \* DatedTree::_ranks
  pc,                  \* where the caller is: "idle", inside "randomize", "aborted"
  toAdd,               \* randomize: the local vector toAdd
  currentRank,         \* randomize: the local currentRank
  hasBackup,           \* the caller holds a DatedBackup
  backup,              \* the DatedBackup the caller holds
  backupOrd,           \* history: orderedSpeciations when the backup was taken
  lastOp,              \* history: the last operation called, its arguments and result
  preRanks,            \* history: ranks before the last operation
  preOrd,              \* history: orderedSpeciations before the last operation
  upValid,             \* history: the operation before the last was a moveUp returning true
  upRanks,             \* history: ranks before that moveUp
  upOrd,               \* history: orderedSpeciations before that moveUp
  oobRead,             \* history: an operation read a vector outside its bounds
  transfers,           \* history: what canTransferUnderRelDated last returned, per (e, d)
  target,              \* a dating randomize may end in (orderedSpeciations and ranks)
  prob,                \* the probability <<p, q>> = p/q that randomize ends in target
  scorer,              \* the evaluator of the dating search
  bestLL,              \* optimizeDatesLocal: bestLL
  initialItLL,         \* optimizeDatesLocal: initialItLL
  searchRank,          \* optimizeDatesLocal: rank, the loop variable
  entryLL,             \* history: the score at entry of optimizeDatesLocal
  probedLL,            \* history: the highest score evaluated during the call
  accepted,            \* history: the call moved to a better dating
  rejected,            \* history: the call went back from a dating
  searchStateBestLL,   \* SpeciesSearchState::bestLL
  isDated,             \* what evaluator.isDated() returns
  thorough,            \* optimizeDates: the argument thorough
  unsuccessfulTrials,  \* optimizeDates: unsuccessfulTrials
  returned,            \* history: the values the calls of optimizeDates returned
  restored,            \* history: the call undid a trial by restoreDates
  farFromPlausible,    \* SpeciesSearchState::farFromPlausible
  maxDepth,            \* rootSearch: the argument maxDepth
  initialRootLL,       \* rootSearch: initialLL
  movesHistory,        \* rootSearch: movesHistory
  bestMovesHistory,    \* rootSearch: bestMovesHistory
  bestDatedBackup,     \* rootSearch: bestDatedBackup
  stack,               \* the calls of rootSearchAux under way, the innermost last
  entry,               \* history: the tree, its dating and its score at entry of rootSearch
  measured,            \* history: the tree and the dating at which bestLL was computed
  visited,             \* history: the trees rootSearchAux scored, with their scores
  toTest,              \* getBestDatingsFromReconciliation: the argument toTest
  toTake,              \* getBestDatingsFromReconciliation: the argument toTake
  transferInformation, \* the frequencies evaluator.getTransferInformation gives
  reconciliationDatingBackup,  \* getBestDatingsFromReconciliation: the local of that name
  scoredBackups,       \* getBestDatingsFromReconciliation: scoredBackups
  tested,              \* getBestDatingsFromReconciliation: i, the loop variable
  bestScore,           \* getBestDatingsFromReconciliation: bestScore
  candidates,          \* history: the entries pushed to scoredBackups, in that order
  perturbed,           \* the datings perturbateDates can leave the tree in, tabulated
  transferScores,      \* getTransferScore of the datings of the tree, tabulated
  randomized,          \* the datings randomize can leave the tree in
  thisValue,           \* a ScaledValue, the one an operator is called on
  otherValue,          \* a ScaledValue, the argument of the operator
  result,              \* what the last operator of ScaledValue returned
  prevValue,           \* history: thisValue before the last operator
  scalarOp,            \* history: the last operator of ScaledValue called
  events,              \* history: what the search under way called, in order
  received,            \* history: the methods the TransferScoreEvaluator was called with
  perturbing,          \* perturbateDates: its locals, and the moves of the perturbation under way
  workers,             \* the number of workers of the parallel context
  localScores,         \* getTransferScore: the local score of each worker, Nil until it has summed
  reduced              \* getTransferScore: what sumUInt leaves in score, on every worker

dated == <<orderedSpeciations, ranks>>

rand == <<toAdd, currentRank>>

saved == <<hasBackup, backup, backupOrd>>

hist == <<lastOp, preRanks, preOrd, upValid, upRanks, upOrd, oobRead>>

chance == <<target, prob>>

search == <<scorer, bestLL, initialItLL, searchRank, entryLL, probedLL,
            accepted, rejected>>

optimizing == <<searchStateBestLL, isDated, thorough, unsuccessfulTrials, returned, restored>>

rooting == <<farFromPlausible, maxDepth, initialRootLL, movesHistory, bestMovesHistory,
             bestDatedBackup, stack, entry, measured, visited>>

selecting == <<toTest, toTake, transferInformation, reconciliationDatingBackup,
               scoredBackups, tested, bestScore, candidates, perturbed,
               transferScores, randomized>>

scalars == <<thisValue, otherValue, result, prevValue, scalarOp>>

observing == <<events, received>>

perturbation == <<perturbing>>

parallel == <<workers, localScores, reduced>>

calls == <<parallel, perturbation, observing, scalars, optimizing, rooting, selecting>>

vars == <<tree, fromBL, dated, pc, rand, saved, hist, transfers, chance, search,
          calls>>

\* ------------------------------------------------------------- DatedTree
\* DatedTree::updateSpeciationOrderAndRanks: the order, then the ranks
SpeciationOrders(t, useBLs) ==
  IF ~useBLs THEN {Vec(Reverse(getPostOrderNodes(t)))}
  ELSE {Vec(s) : s \in getOrderedSpeciations(t)}

RECURSIVE AssignRanks(_, _, _)
AssignRanks(o, rk, rank) ==
  IF rank \notin DOMAIN o THEN rk
  ELSE AssignRanks(o, [rk EXCEPT ![o[rank]] = rank], rank + 1)

\* DatedTree::DatedTree: _ranks.resize(n, 0)
ZeroRanks(t) == [x \in Nodes(t) |-> 0]

\* DatedTree::checkRanks: both assertions hold
checkRanks(t, o, rk) ==
  /\ \A i \in 0 .. t.n - 2 : rk[o[i]] + 1 = rk[o[i + 1]]
  /\ \A x \in Nodes(t) : t.parent[x] # Nil => rk[t.parent[x]] < rk[x]

\* DatedTree::moveDown, the test of line 74; size() - 2 is computed in size_t
\* and does not wrap, every tree having at least 3 nodes
RankTooHighOffByOne(t, rank) == rank > t.n - 1

RankTooHigh(t, rank) == rank > t.n - 2

\* DatedTree::moveDown, the test of line 80, negated
CanSwapNoParentTest(t, n1, n2) == ~(IsLeaf(t, n1) \/ IsLeaf(t, n2))

CanSwap(t, n1, n2) == ~(IsLeaf(t, n1) \/ IsLeaf(t, n2) \/ t.parent[n2] = n1)

\* DatedTree::moveDown, lines 83-84
SwapOrdHalf(o, rank) == [o EXCEPT ![rank + 1] = o[rank]]

SwapOrd(o, rank) == [o EXCEPT ![rank + 1] = o[rank], ![rank] = o[rank + 1]]

\* DatedTree::moveDown, lines 85-86
SwapRanksHalf(rk, n1, n2) == [rk EXCEPT ![n1] = (@ + 1) % UIntMod]

SwapRanks(rk, n1, n2) ==
  [rk EXCEPT ![n1] = (@ + 1) % UIntMod, ![n2] = (@ - 1) % UIntMod]

\* The result of a call: the value returned, the two vectors after it, and
\* whether it read a vector out of bounds (undefined behaviour: the call is
\* then recorded as returning false and changing nothing).
Result(ret, o, rk, oob) == [ret |-> ret, ord |-> o, ranks |-> rk, oob |-> oob]

\* DatedTree::moveDown
moveDown(t, o, rk, rank) ==
  IF RankTooHigh(t, rank) THEN Result(FALSE, o, rk, FALSE)
  ELSE IF rank \notin DOMAIN o \/ rank + 1 \notin DOMAIN o
  THEN Result(FALSE, o, rk, TRUE)
  ELSE LET n1 == o[rank]
           n2 == o[rank + 1]
       IN IF ~CanSwap(t, n1, n2) THEN Result(FALSE, o, rk, FALSE)
          ELSE Result(TRUE, SwapOrd(o, rank), SwapRanks(rk, n1, n2), FALSE)

\* DatedTree::moveUp
moveUp(t, o, rk, rank) ==
  IF rank = 0 THEN Result(FALSE, o, rk, FALSE)
  ELSE moveDown(t, o, rk, (rank - 1) % UIntMod)

RECURSIVE RestoreLoop(_, _, _, _)
\* DatedTree::restore, the loop over the copy of _orderedSpeciations
RestoreLoop(o, rk, speciations, i) ==
  IF i \notin DOMAIN speciations THEN o
  ELSE RestoreLoop([o EXCEPT ![rk[speciations[i]]] = speciations[i]], rk,
                   speciations, i + 1)

RestoreNoRebuild(o, bk) == Result(TRUE, o, bk, FALSE)

\* DatedTree::restore
restore(o, bk) == Result(TRUE, RestoreLoop(o, bk, o, 0), bk, FALSE)

CanTransferNotStrict(t, rk, e, d) ==
  IF d = e THEN FALSE
  ELSE IF t.parent[e] = Nil THEN TRUE
  ELSE rk[d] >= rk[t.parent[e]]

\* DatedTree::canTransferUnderRelDated
canTransferUnderRelDated(t, rk, e, d) ==
  IF d = e THEN FALSE
  ELSE IF t.parent[e] = Nil THEN TRUE
  ELSE rk[d] > rk[t.parent[e]]

\* DatedTree::randomize, one turn of the loop with Random::getInt() % size = i
RandomizeTurnNoRight(t, cfg, i) ==
  LET node == cfg.toAdd[i + 1]
  IN IF ~IsLeaf(t, node)
     THEN [toAdd |-> [cfg.toAdd EXCEPT ![i + 1] = t.left[node]],
           currentRank |-> cfg.currentRank + 1,
           ord |-> [cfg.ord EXCEPT ![cfg.currentRank] = node],
           ranks |-> [cfg.ranks EXCEPT ![node] = cfg.currentRank]]
     ELSE [toAdd |-> SubSeq([cfg.toAdd EXCEPT ![i + 1] = cfg.toAdd[Len(cfg.toAdd)]],
                            1, Len(cfg.toAdd) - 1),
           currentRank |-> cfg.currentRank,
           ord |-> cfg.ord,
           ranks |-> cfg.ranks]

RandomizeTurn(t, cfg, i) ==
  LET node == cfg.toAdd[i + 1]
  IN IF ~IsLeaf(t, node)
     THEN [toAdd |-> Append([cfg.toAdd EXCEPT ![i + 1] = t.left[node]], t.right[node]),
           currentRank |-> cfg.currentRank + 1,
           ord |-> [cfg.ord EXCEPT ![cfg.currentRank] = node],
           ranks |-> [cfg.ranks EXCEPT ![node] = cfg.currentRank]]
     ELSE [toAdd |-> SubSeq([cfg.toAdd EXCEPT ![i + 1] = cfg.toAdd[Len(cfg.toAdd)]],
                            1, Len(cfg.toAdd) - 1),
           currentRank |-> cfg.currentRank,
           ord |-> cfg.ord,
           ranks |-> cfg.ranks]

\* Rationals p/q in lowest terms, as <<p, q>>
RECURSIVE Gcd(_, _)
Gcd(a, b) == IF b = 0 THEN a ELSE Gcd(b, a % b)

Ratio(p, q) == <<p \div Gcd(p, q), q \div Gcd(p, q)>>

RatioAdd(x, y) ==
  LET q == (x[2] \div Gcd(x[2], y[2])) * y[2]
  IN Ratio(x[1] * (q \div x[2]) + y[1] * (q \div y[2]), q)

RECURSIVE RatioSum(_, _)
\* the sum of the rationals xs[i], xs[i + 1], ...
RatioSum(xs, i) ==
  IF i \notin DOMAIN xs THEN <<0, 1>> ELSE RatioAdd(xs[i], RatioSum(xs, i + 1))

\* the state a call of randomize is in
RandomizeState(ta, cr, o, rk) ==
  [toAdd |-> ta, currentRank |-> cr, ord |-> o, ranks |-> rk]

RECURSIVE randomizeChance(_, _, _)
\* DatedTree::randomize, the loop from the state cfg on, with
\* Random::getInt() % toAdd.size() uniform over 0 .. toAdd.size() - 1: the
\* probability that it ends with orderedSpeciations and ranks as in final.
\* A turn that gives a rank to another node than final has at that rank
\* cannot end in final, the loop never writing that rank again.
randomizeChance(t, cfg, final) ==
  IF cfg.toAdd = <<>>
  THEN IF cfg.ord = final.ord /\ cfg.ranks = final.ranks THEN <<1, 1>> ELSE <<0, 1>>
  ELSE IF cfg.currentRank > 0
          /\ cfg.ord[cfg.currentRank - 1] # final.ord[cfg.currentRank - 1]
  THEN <<0, 1>>
  ELSE LET turns == {<<i, RandomizeTurn(t, cfg, i)>> : i \in 0 .. Len(cfg.toAdd) - 1}
           chances == {<<u[1], randomizeChance(t, u[2], final)>> : u \in turns}
           sum == RatioSum([i \in 0 .. Len(cfg.toAdd) - 1 |->
                              (CHOOSE c \in chances : c[1] = i)[2]], 0)
       IN Ratio(sum[1], sum[2] * Len(cfg.toAdd))

\* ------------------------------------------------------------ operations
\* the unsigned rank arguments tried: every position, one past the end, and
\* the largest unsigned value
RankArgs(t) == 0 .. t.n \cup {UIntMod - 1}

Op(name, a, b, ret) == [op |-> name, arg |-> a, arg2 |-> b, ret |-> ret]

\* the history kept across the call name(a): the state before it and, when
\* it is a moveUp(a) that follows a moveUp(a) which returned true, the state
\* before that one
Remember(name, a) ==
  /\ preRanks' = ranks
  /\ preOrd' = orderedSpeciations
  /\ upValid' = (name = "moveUp" /\ lastOp = Op("moveUp", a, 0, TRUE))
  /\ upRanks' = IF upValid' THEN preRanks ELSE ranks
  /\ upOrd' = IF upValid' THEN preOrd ELSE orderedSpeciations

\* assert(_fromBL) fails
NotDated(name, a) ==
  /\ ~fromBL
  /\ pc' = "aborted"
  /\ lastOp' = Op(name, a, 0, FALSE)
  /\ Remember(name, a)
  /\ UNCHANGED <<dated, rand, saved, oobRead>>

Apply(name, a, r) ==
  /\ fromBL
  /\ orderedSpeciations' = r.ord
  /\ ranks' = r.ranks
  /\ oobRead' = (oobRead \/ r.oob)
  /\ lastOp' = Op(name, a, 0, r.ret)
  /\ Remember(name, a)
  /\ UNCHANGED <<pc, rand, saved>>

MoveUp(rank) ==
  /\ pc = "idle"
  /\ UNCHANGED transfers
  /\ \/ NotDated("moveUp", rank)
     \/ Apply("moveUp", rank, moveUp(tree, orderedSpeciations, ranks, rank))
  /\ UNCHANGED <<chance, search, tree, fromBL>>
  /\ UNCHANGED calls

MoveDown(rank) ==
  /\ pc = "idle"
  /\ UNCHANGED transfers
  /\ \/ NotDated("moveDown", rank)
     \/ Apply("moveDown", rank, moveDown(tree, orderedSpeciations, ranks, rank))
  /\ UNCHANGED <<chance, search, tree, fromBL>>
  /\ UNCHANGED calls

\* DatedTree::getBackup
GetBackup ==
  /\ pc = "idle"
  /\ hasBackup' = TRUE
  /\ backup' = ranks
  /\ backupOrd' = orderedSpeciations
  /\ lastOp' = Op("getBackup", 0, 0, TRUE)
  /\ Remember("getBackup", 0)
  /\ UNCHANGED <<chance, search, tree, fromBL, dated, pc, rand, oobRead, transfers>>
  /\ UNCHANGED calls

\* DatedTree::restore, of a backup taken from this tree
Restore ==
  /\ pc = "idle"
  /\ hasBackup
  /\ LET r == restore(orderedSpeciations, backup)
     IN /\ orderedSpeciations' = r.ord
        /\ ranks' = r.ranks
  /\ lastOp' = Op("restore", 0, 0, TRUE)
  /\ Remember("restore", 0)
  /\ UNCHANGED <<chance, search, tree, fromBL, pc, rand, saved, oobRead, transfers>>
  /\ UNCHANGED calls

\* canTransferUnderRelDated called on every pair of nodes, as the loops of
\* getTransferScore call it
CanTransferAll ==
  /\ pc = "idle"
  /\ transfers' = [e \in Nodes(tree), d \in Nodes(tree) |->
                     canTransferUnderRelDated(tree, ranks, e, d)]
  /\ lastOp' = Op("canTransferUnderRelDated", 0, 0, TRUE)
  /\ Remember("canTransferUnderRelDated", 0)
  /\ UNCHANGED <<chance, search, tree, fromBL, dated, pc, rand, saved, oobRead>>
  /\ UNCHANGED calls

\* DatedTree::randomize, up to the first test of the loop
RandomizeBegin ==
  /\ pc = "idle"
  /\ \/ NotDated("randomize", 0)
     \/ /\ fromBL
        /\ pc' = "randomize"
        /\ toAdd' = <<tree.root>>
        /\ currentRank' = 0
        /\ lastOp' = Op("randomize", 0, 0, FALSE)
        /\ Remember("randomize", 0)
        /\ UNCHANGED <<dated, saved, oobRead>>
  /\ UNCHANGED <<chance, search, tree, fromBL, transfers>>
  /\ UNCHANGED calls

\* DatedTree::randomize, one turn of the loop and the test that follows it
RandomizeStep ==
  /\ pc = "randomize"
  /\ \E i \in 0 .. Len(toAdd) - 1 :
       LET c == RandomizeTurn(tree, RandomizeState(toAdd, currentRank,
                                                   orderedSpeciations, ranks), i)
       IN /\ toAdd' = c.toAdd
          /\ currentRank' = c.currentRank
          /\ orderedSpeciations' = c.ord
          /\ ranks' = c.ranks
          /\ pc' = IF c.toAdd = <<>> THEN "idle" ELSE "randomize"
          /\ lastOp' = [lastOp EXCEPT !.ret = (c.toAdd = <<>>)]
  /\ UNCHANGED <<chance, search, tree, fromBL, saved, preRanks, preOrd, upValid, upRanks, upOrd,
                 oobRead, transfers>>
  /\ UNCHANGED calls

\* DatedTree::DatedTree on a tree of the tree layer
Construct ==
  /\ tree \in Trees
  /\ fromBL \in BOOLEAN
  /\ orderedSpeciations \in SpeciationOrders(tree, fromBL)
  /\ ranks = AssignRanks(orderedSpeciations, ZeroRanks(tree), 0)
  /\ pc = IF checkRanks(tree, orderedSpeciations, ranks) THEN "idle" ELSE "aborted"
  /\ toAdd = <<>>
  /\ currentRank = 0
  /\ hasBackup = FALSE
  /\ backup = ranks
  /\ backupOrd = orderedSpeciations
  /\ lastOp = Op("DatedTree", 0, 0, TRUE)
  /\ preRanks = ranks
  /\ preOrd = orderedSpeciations
  /\ upValid = FALSE
  /\ upRanks = ranks
  /\ upOrd = orderedSpeciations
  /\ oobRead = FALSE
  /\ transfers = <<>>

\* no root search under way
NoRootSearch ==
  /\ farFromPlausible = FALSE
  /\ maxDepth = 0
  /\ initialRootLL = 0
  /\ movesHistory = <<>>
  /\ bestMovesHistory = <<>>
  /\ bestDatedBackup = <<>>
  /\ stack = <<>>
  /\ entry = <<>>
  /\ measured = <<>>
  /\ visited = {}

\* no search of the best datings under way
NoBestDatings ==
  /\ toTest = 0
  /\ toTake = 0
  /\ transferInformation = <<>>
  /\ reconciliationDatingBackup = <<>>
  /\ scoredBackups = <<>>
  /\ tested = 0
  /\ bestScore = 0
  /\ candidates = <<>>
  /\ perturbed = <<>>
  /\ transferScores = <<>>
  /\ randomized = {}

\* no ScaledValue at hand
NoScalars ==
  /\ thisValue = <<>>
  /\ otherValue = <<>>
  /\ result = <<>>
  /\ prevValue = <<>>
  /\ scalarOp = "none"

\* nothing observed yet
NoObserving ==
  /\ events = <<>>
  /\ received = {}

\* no perturbateDates under way
NoPerturbation == perturbing = <<>>

\* no getTransferScore under way on the workers
NoParallel ==
  /\ workers = 1
  /\ localScores = <<>>
  /\ reduced = 0

\* no call of the searches under way
NoCalls ==
  /\ searchStateBestLL = 0
  /\ isDated = TRUE
  /\ thorough = FALSE
  /\ unsuccessfulTrials = 0
  /\ returned = <<>>
  /\ restored = FALSE
  /\ NoRootSearch
  /\ NoBestDatings
  /\ NoScalars
  /\ NoObserving
  /\ NoPerturbation
  /\ NoParallel

\* no dating search under way
NoSearch ==
  /\ bestLL = 0
  /\ initialItLL = 0
  /\ searchRank = 0
  /\ entryLL = 0
  /\ probedLL = 0
  /\ accepted = FALSE
  /\ rejected = FALSE

Init ==
  /\ Construct
  /\ target = <<>>
  /\ prob = <<0, 1>>
  /\ scorer = <<>>
  /\ NoSearch
  /\ NoCalls

\* the calls of a DatedTree, in any order
Next ==
  \/ \E rank \in RankArgs(tree) : MoveUp(rank)
  \/ \E rank \in RankArgs(tree) : MoveDown(rank)
  \/ GetBackup
  \/ Restore
  \/ RandomizeBegin
  \/ RandomizeStep

Spec == Init /\ [][Next]_vars

\* the dated tree under rank swaps and transfer queries
NextTransfer ==
  \/ \E rank \in RankArgs(tree) : MoveUp(rank)
  \/ CanTransferAll

SpecTransfer == Init /\ [][NextTransfer]_vars

\* the dated tree under rank swaps and randomize()
NextRandomize ==
  \/ \E rank \in RankArgs(tree) : MoveUp(rank)
  \/ RandomizeBegin
  \/ RandomizeStep

SpecRandomize == Init /\ [][NextRandomize]_vars

\* the calls that need a dated tree, on dated and undated trees
NextNeedDated ==
  \/ \E rank \in RankArgs(tree) : MoveUp(rank)
  \/ \E rank \in RankArgs(tree) : MoveDown(rank)
  \/ RandomizeBegin
  \/ RandomizeStep
  \/ CanTransferAll

SpecNeedDated == Init /\ [][NextNeedDated]_vars

\* randomize() as a random experiment: a tree in some dating, and a dating
\* target it may end in
InitChance ==
  /\ Construct
  /\ target \in {[ord |-> o, ranks |-> AssignRanks(o, ZeroRanks(tree), 0)] :
                   o \in SpeciationOrders(tree, TRUE)}
  /\ prob = <<0, 1>>
  /\ scorer = <<>>
  /\ NoSearch
  /\ NoCalls

\* the probability that a call of randomize() ends in target
RandomizeChance ==
  /\ pc = "idle"
  /\ lastOp.op # "randomize"
  /\ \/ NotDated("randomize", 0) /\ UNCHANGED prob
     \/ /\ fromBL
        /\ prob' = randomizeChance(tree, RandomizeState(<<tree.root>>, 0,
                                     orderedSpeciations, ranks), target)
        /\ lastOp' = Op("randomize", 0, 0, TRUE)
        /\ Remember("randomize", 0)
        /\ UNCHANGED <<dated, pc, rand, saved, oobRead>>
  /\ UNCHANGED <<tree, fromBL, transfers, target, search>>
  /\ UNCHANGED calls

NextChance == RandomizeChance

SpecChance == InitChance /\ [][NextChance]_vars

\* ------------------------------------------------------------ the scorers
\* the rank vectors a tree can be in
Datings(t) ==
  {AssignRanks(o, ZeroRanks(t), 0) :
     o \in SpeciationOrders(t, TRUE) \cup SpeciationOrders(t, FALSE)}

Evaluator(kind, tg, freq, tab) ==
  [kind |-> kind, target |-> tg, frequencies |-> freq, table |-> tab]

\* the scorer of the local hill-climb scenario: minus the sum over the inner
\* nodes x of (rank(x) - target_rank(x))^2
TargetScore(t, rk, tg) ==
  0 - Cardinality({c \in Inner(t) \X (1 .. t.n * t.n) :
                     c[2] <= (rk[c[1]] - tg[c[1]]) * (rk[c[1]] - tg[c[1]])})

\* SpeciesTree::getLabelToId, the label of a node being its node_index
getLabelToId(t) == [label \in Nodes(t) |-> label]

\* transfer frequencies over the species of t with count[e][d] = c and every
\* other count zero
OneTransfer(t, e, d, c) ==
  [count |-> [from \in Nodes(t) |->
                [to \in Nodes(t) |-> IF from = e /\ to = d THEN c ELSE 0]],
   idToLabel |-> [id \in Nodes(t) |-> id]]

\* getTransferScore, the ids of the frequencies taken for node indices
getTransferScoreByIds(t, rk, frequencies) ==
  LET N == Cardinality(DOMAIN frequencies.count)
      units == {u \in (0 .. N - 1) \X (0 .. N - 1) \X (1 .. MaxCount) :
                  u[3] <= frequencies.count[u[1]][u[2]]}
  IN Cardinality({u \in units : canTransferUnderRelDated(t, rk, u[1], u[2])}) % UIntMod

\* getTransferScore: the counts of the transfers the dating permits, summed
\* (as the number of units <<from, to, k>> with k <= count[from][to])
getTransferScore(t, rk, frequencies) ==
  LET N == Cardinality(DOMAIN frequencies.count)
      labelToId == getLabelToId(t)
      units == {u \in (0 .. N - 1) \X (0 .. N - 1) \X (1 .. MaxCount) :
                  u[3] <= frequencies.count[u[1]][u[2]]}
  IN Cardinality({u \in units :
                    canTransferUnderRelDated(t, rk,
                      labelToId[frequencies.idToLabel[u[1]]],
                      labelToId[frequencies.idToLabel[u[2]]])}) % UIntMod

RECURSIVE LeafSet(_, _)
\* the leaves under a node
LeafSet(t, x) ==
  IF IsLeaf(t, x) THEN {x}
  ELSE LeafSet(t, t.left[x]) \cup LeafSet(t, t.right[x])

\* where the root is: the two sets of leaves it separates
RootOf(t) == {LeafSet(t, t.left[t.root]), LeafSet(t, t.right[t.root])}

\* SpeciesTreeLikelihoodEvaluatorInterface::computeLikelihood of a
\* deterministic evaluator: a function of the tree and its dating
computeLikelihood(t, ev, rk) ==
  CASE ev.kind = "target" -> TargetScore(t, rk, ev.target)
    [] ev.kind = "transfer" -> getTransferScore(t, rk, ev.frequencies)
    [] ev.kind = "table" -> ev.table[rk]
    [] ev.kind = "root" -> ev.table[RootOf(t)]

Evaluators(t) ==
  {Evaluator("target", AssignRanks(o, ZeroRanks(t), 0), <<>>, <<>>) :
     o \in SpeciationOrders(t, TRUE)}
  \cup {Evaluator("transfer", <<>>, OneTransfer(t, e, d, c), <<>>) :
          e \in Nodes(t), d \in Inner(t), c \in 1 .. MaxCount}
  \cup IF Cardinality(Leaves(t)) > TableLeaves THEN {}
       ELSE {Evaluator("table", <<>>, <<>>, tab) :
               tab \in [Datings(t) -> 0 .. MaxScore]}

\* ------------------------------------------------------- the dating search
Min(a, b) == IF a < b THEN a ELSE b

Max(a, b) == IF a > b THEN a ELSE b

\* optimizeDatesLocal, the reversal of a move that did not improve the score
NoReversal(t, o, rk, rank) == Result(TRUE, o, rk, FALSE)

Reversal(t, o, rk, rank) == moveUp(t, o, rk, rank)

\* optimizeDatesLocal, a move that succeeded and what follows it up to the
\* score of the dating it gave
ProbeUnnotified == <<"moveUp", "computeLikelihood">>

Probe == <<"moveUp", "onSpeciesDatesChange", "computeLikelihood">>

\* optimizeDatesLocal, up to the loop
OptimizeDatesLocalBegin ==
  /\ pc = "idle"
  /\ lastOp.op = "DatedTree"
  /\ pc' = "optimizeDatesLocal"
  /\ bestLL' = computeLikelihood(tree, scorer, ranks)
  /\ initialItLL' = bestLL'
  /\ searchRank' = 0
  /\ entryLL' = bestLL'
  /\ probedLL' = bestLL'
  /\ lastOp' = Op("optimizeDatesLocal", 0, 0, FALSE)
  /\ Remember("optimizeDatesLocal", 0)
  /\ UNCHANGED <<tree, fromBL, dated, rand, saved, oobRead, transfers, chance,
                 scorer, accepted, rejected>>
  /\ events' = <<"computeLikelihood">>
  /\ UNCHANGED <<perturbation, scalars, optimizing, rooting, selecting, received>>
  /\ UNCHANGED parallel

\* optimizeDatesLocal: a probe is accepted whatever does not lower the score
NotWorse(ll, best) == ll >= best

\* optimizeDatesLocal: a probe is accepted when ll > bestLL
Better(ll, best) == ll > best

\* optimizeDatesLocal, one turn of the for loop
OptimizeDatesLocalTurn ==
  /\ pc = "optimizeDatesLocal"
  /\ searchRank < getInnerNodeNumber(tree)
  /\ IF ~fromBL
     THEN /\ pc' = "aborted"
          /\ UNCHANGED <<dated, oobRead, bestLL, searchRank, probedLL,
                         accepted, rejected, events>>
     ELSE LET up == moveUp(tree, orderedSpeciations, ranks, searchRank)
              ll == computeLikelihood(tree, scorer, up.ranks)
              back == Reversal(tree, up.ord, up.ranks, searchRank)
          IN /\ pc' = pc
             /\ IF ~up.ret
                THEN /\ searchRank' = searchRank + 1
                     /\ oobRead' = (oobRead \/ up.oob)
                     /\ UNCHANGED <<dated, bestLL, probedLL, accepted, rejected,
                                    events>>
                ELSE IF Better(ll, bestLL)
                THEN /\ bestLL' = ll
                     /\ searchRank' = searchRank - Min(2, searchRank) + 1
                     /\ orderedSpeciations' = up.ord
                     /\ ranks' = up.ranks
                     /\ oobRead' = (oobRead \/ up.oob)
                     /\ probedLL' = Max(probedLL, ll)
                     /\ accepted' = TRUE
                     /\ events' = events \o Probe
                     /\ UNCHANGED rejected
                ELSE /\ searchRank' = searchRank + 1
                     /\ orderedSpeciations' = back.ord
                     /\ ranks' = back.ranks
                     /\ oobRead' = (oobRead \/ up.oob \/ back.oob)
                     /\ probedLL' = Max(probedLL, ll)
                     /\ rejected' = TRUE
                     /\ events' = events \o Probe \o <<"reversal">>
                     /\ UNCHANGED <<bestLL, accepted>>
  /\ UNCHANGED <<tree, fromBL, rand, saved, lastOp, preRanks, preOrd, upValid,
                 upRanks, upOrd, transfers, chance, scorer, initialItLL, entryLL>>
  /\ UNCHANGED <<perturbation, scalars, optimizing, rooting, selecting, received>>
  /\ UNCHANGED parallel

\* optimizeDatesLocal, the end of a round that improved the score by more than 1.0
OptimizeDatesLocalAgain ==
  /\ pc = "optimizeDatesLocal"
  /\ searchRank >= getInnerNodeNumber(tree)
  /\ bestLL - initialItLL > 1
  /\ initialItLL' = bestLL
  /\ searchRank' = 0
  /\ UNCHANGED <<tree, fromBL, dated, pc, rand, saved, hist, transfers, chance,
                 scorer, bestLL, entryLL, probedLL, accepted, rejected>>
  /\ UNCHANGED calls

\* optimizeDatesLocal, the end of the last round and the return of bestLL
OptimizeDatesLocalReturn ==
  /\ pc = "optimizeDatesLocal"
  /\ searchRank >= getInnerNodeNumber(tree)
  /\ ~(bestLL - initialItLL > 1)
  /\ pc' = "idle"
  /\ lastOp' = Op("optimizeDatesLocal", 0, 0, TRUE)
  /\ UNCHANGED <<tree, fromBL, dated, rand, saved, preRanks, preOrd, upValid,
                 upRanks, upOrd, oobRead, transfers, chance, search>>
  /\ events' = Append(events, "onSpeciesDatesChange")
  /\ UNCHANGED <<perturbation, scalars, optimizing, rooting, selecting, received>>
  /\ UNCHANGED parallel

\* a tree in some dating and an evaluator of its datings
InitLocalSearch ==
  /\ Construct
  /\ target = <<>>
  /\ prob = <<0, 1>>
  /\ scorer \in Evaluators(tree)
  /\ NoSearch
  /\ NoCalls

NextLocalSearch ==
  \/ OptimizeDatesLocalBegin
  \/ OptimizeDatesLocalTurn
  \/ OptimizeDatesLocalAgain
  \/ OptimizeDatesLocalReturn

SpecLocalSearch == InitLocalSearch /\ [][NextLocalSearch]_vars

\* ------------------------------------------- the searches, call by call
\* optimizeDatesLocal as one step.  The state of a call: the two vectors of
\* the dated tree, the locals bestLL, initialItLL and rank, and
\* searchState->bestLL (hasState: searchState is not null)
SearchPoint(o, rk, ll, hasState, stateLL) ==
  [ord |-> o, ranks |-> rk, bestLL |-> ll, initialItLL |-> ll, rank |-> 0,
   hasState |-> hasState, stateLL |-> stateLL]

\* SpeciesSearchState::betterTreeCallback, called when ll > searchState->bestLL
betterTreeCallback(hasState, stateLL, ll) ==
  IF hasState /\ ll > stateLL THEN ll ELSE stateLL

\* optimizeDatesLocal, one turn of the for loop
optimizeDatesLocalTurn(t, ev, s) ==
  LET up == moveUp(t, s.ord, s.ranks, s.rank)
      ll == computeLikelihood(t, ev, up.ranks)
      back == Reversal(t, up.ord, up.ranks, s.rank)
      told == betterTreeCallback(s.hasState, s.stateLL, ll)
  IN IF ~up.ret THEN [s EXCEPT !.rank = s.rank + 1]
     ELSE IF ll > s.bestLL
     THEN [s EXCEPT !.bestLL = ll, !.rank = s.rank - Min(2, s.rank) + 1,
                    !.ord = up.ord, !.ranks = up.ranks, !.stateLL = told]
     ELSE [s EXCEPT !.rank = s.rank + 1, !.ord = back.ord,
                    !.ranks = back.ranks, !.stateLL = told]

RECURSIVE optimizeDatesLocalFrom(_, _, _)
\* optimizeDatesLocal, the do-while loop from the state s on
optimizeDatesLocalFrom(t, ev, s) ==
  IF s.rank < getInnerNodeNumber(t)
  THEN optimizeDatesLocalFrom(t, ev, optimizeDatesLocalTurn(t, ev, s))
  ELSE IF s.bestLL - s.initialItLL > 1
  THEN optimizeDatesLocalFrom(t, ev, [s EXCEPT !.initialItLL = s.bestLL, !.rank = 0])
  ELSE s

\* optimizeDatesLocal on a dated tree: the state at return, bestLL the value
\* returned
optimizeDatesLocal(t, ev, o, rk, hasState, stateLL) ==
  optimizeDatesLocalFrom(t, ev,
    SearchPoint(o, rk, computeLikelihood(t, ev, rk), hasState, stateLL))

\* optimizeDatesLocal, what a turn whose moveUp succeeded does with the score
\* ll: whether searchState->bestLL was at least the local bestLL, whether
\* betterTreeCallback is called, whether the swap is accepted
ProbeAt(s, ll) ==
  [covered |-> s.stateLL >= s.bestLL,
   called |-> s.hasState /\ ll > s.stateLL,
   accepted |-> ll > s.bestLL]

RECURSIVE ProbesFrom(_, _, _)
\* optimizeDatesLocal, the probes of the do-while loop from the state s on
ProbesFrom(t, ev, s) ==
  LET up == moveUp(t, s.ord, s.ranks, s.rank)
      ll == computeLikelihood(t, ev, up.ranks)
  IN IF s.rank < getInnerNodeNumber(t)
     THEN (IF up.ret THEN <<ProbeAt(s, ll)>> ELSE <<>>)
            \o ProbesFrom(t, ev, optimizeDatesLocalTurn(t, ev, s))
     ELSE IF s.bestLL - s.initialItLL > 1
     THEN ProbesFrom(t, ev, [s EXCEPT !.initialItLL = s.bestLL, !.rank = 0])
     ELSE <<>>

\* optimizeDatesLocal on a dated tree: its probes that called
\* betterTreeCallback or met searchState->bestLL below the local bestLL
Probes(t, ev, o, rk, hasState, stateLL) ==
  SelectSeq(ProbesFrom(t, ev,
              SearchPoint(o, rk, computeLikelihood(t, ev, rk), hasState, stateLL)),
            LAMBDA p : p.called \/ ~p.covered)

\* a dating: the two vectors of a DatedTree
Dating(o, rk) == [ord |-> o, ranks |-> rk]

\* perturbateDates: the number of perturbations, for perturbation = p[1] / p[2]
\* (the product in double, truncated)
perturbations(N, p) == (2 * N * p[1]) \div p[2]

\* perturbateDates: maxDisplacement, the truncation of sqrt(N) * 2 * p raised
\* to 2 at least
maxDisplacement(N, p) ==
  Max(2, CHOOSE m \in 0 .. 2 * N * p[1] :
           /\ m * m * p[2] * p[2] <= 4 * N * p[1] * p[1]
           /\ (m + 1) * (m + 1) * p[2] * p[2] > 4 * N * p[1] * p[1])

\* perturbateDates: what Random::getBool and Random::getInt can give one
\* perturbation
Draws(N, D) ==
  [isUp : BOOLEAN, rank : 0 .. N - 1, displacement : 1 .. D, nodesToMove : 1 .. 10]

RECURSIVE perturbationFrom(_, _, _, _, _)
\* perturbateDates: the two nested loops of one perturbation, from (k, j) on;
\* the first move that fails ends both
perturbationFrom(t, d, draw, k, j) ==
  IF k >= draw.nodesToMove THEN d
  ELSE IF j >= draw.displacement THEN perturbationFrom(t, d, draw, k + 1, 0)
  ELSE LET ok == IF draw.isUp
                 THEN moveUp(t, d.ord, d.ranks, (draw.rank + k - j) % UIntMod)
                 ELSE moveDown(t, d.ord, d.ranks, (draw.rank - k + j) % UIntMod)
       IN IF ~ok.ret THEN d
          ELSE perturbationFrom(t, Dating(ok.ord, ok.ranks), draw, k, j + 1)

RECURSIVE perturbateDatesFrom(_, _, _, _, _)
\* perturbateDates: the datings the tree can be in after i more perturbations
perturbateDatesFrom(t, ds, N, D, i) ==
  IF i = 0 THEN ds
  ELSE perturbateDatesFrom(t,
         {perturbationFrom(t, d, draw, 0, 0) : d \in ds, draw \in Draws(N, D)},
         N, D, i - 1)

\* perturbateDates: the datings it can leave the tree in
perturbateDates(t, d, p) ==
  LET N == getInnerNodeNumber(t)
  IN perturbateDatesFrom(t, {d}, N, maxDisplacement(N, p), perturbations(N, p))

\* SpeciesTreeOperator::restoreDates
restoreDates(o, bk) == restore(o, bk)

\* optimizeDates: the dating a trial that scored ll leaves, s being the state
\* its local search ended in and bk the backup taken before it
TrialNeverUndone(ll, best, s, bk) == Dating(s.ord, s.ranks)

TrialDating(ll, best, s, bk) ==
  IF ll > best THEN Dating(s.ord, s.ranks)
  ELSE LET back == restoreDates(s.ord, bk) IN Dating(back.ord, back.ranks)

\* optimizeDates, up to the loop
OptimizeDatesBegin(th) ==
  /\ pc = "idle"
  /\ fromBL
  /\ Len(returned) < MaxCalls
  /\ LET initialLL == computeLikelihood(tree, scorer, ranks)
         told == betterTreeCallback(TRUE, searchStateBestLL, initialLL)
         s == optimizeDatesLocal(tree, scorer, orderedSpeciations, ranks, TRUE, told)
     IN IF ~isDated
        THEN /\ returned' = Append(returned, [thorough |-> th, ll |-> initialLL])
             /\ searchStateBestLL' = told
             /\ UNCHANGED <<dated, pc, bestLL>>
        ELSE /\ orderedSpeciations' = s.ord
             /\ ranks' = s.ranks
             /\ bestLL' = s.bestLL
             /\ searchStateBestLL' = s.stateLL
             /\ pc' = "optimizeDates"
             /\ UNCHANGED returned
  /\ thorough' = th
  /\ unsuccessfulTrials' = 0
  /\ restored' = FALSE
  /\ UNCHANGED <<tree, fromBL, rand, saved, hist, transfers, chance, scorer,
                 initialItLL, searchRank, entryLL, probedLL, accepted, rejected,
                 isDated>>
  /\ UNCHANGED rooting
  /\ UNCHANGED selecting
  /\ UNCHANGED scalars
  /\ events' = IF isDated
                THEN Probes(tree, scorer, orderedSpeciations, ranks, TRUE,
                            betterTreeCallback(TRUE, searchStateBestLL,
                              computeLikelihood(tree, scorer, ranks)))
                ELSE <<>>
  /\ UNCHANGED received
  /\ UNCHANGED perturbation
  /\ UNCHANGED parallel

\* optimizeDates, one turn of the loop: a perturbation and a local search
OptimizeDatesTrial ==
  /\ pc = "optimizeDates"
  /\ thorough /\ unsuccessfulTrials < 2
  /\ hasBackup' = TRUE
  /\ backup' = ranks
  /\ backupOrd' = orderedSpeciations
  /\ \E run \in {<<optimizeDatesLocal(tree, scorer, d.ord, d.ranks, TRUE,
                                       searchStateBestLL),
                     Probes(tree, scorer, d.ord, d.ranks, TRUE, searchStateBestLL)>> :
                    d \in perturbateDates(tree, Dating(orderedSpeciations, ranks),
                                          <<1, 10>>)} :
       LET s == run[1]
           after == TrialDating(s.bestLL, bestLL, s, backup')
       IN /\ searchStateBestLL' = s.stateLL
          /\ events' = run[2]
          /\ orderedSpeciations' = after.ord
          /\ ranks' = after.ranks
          /\ IF s.bestLL > bestLL
             THEN /\ bestLL' = s.bestLL
                  /\ unsuccessfulTrials' = 0
                  /\ UNCHANGED restored
             ELSE /\ unsuccessfulTrials' = unsuccessfulTrials + 1
                  /\ restored' = TRUE
                  /\ UNCHANGED bestLL
  /\ UNCHANGED <<tree, fromBL, pc, rand, hist, transfers, chance, scorer,
                 initialItLL, searchRank, entryLL, probedLL, accepted, rejected,
                 isDated, thorough, returned>>
  /\ UNCHANGED rooting
  /\ UNCHANGED selecting
  /\ UNCHANGED scalars
  /\ UNCHANGED received
  /\ UNCHANGED perturbation
  /\ UNCHANGED parallel

\* optimizeDates, the return of bestLL
OptimizeDatesReturn ==
  /\ pc = "optimizeDates"
  /\ ~(thorough /\ unsuccessfulTrials < 2)
  /\ pc' = "idle"
  /\ returned' = Append(returned, [thorough |-> thorough, ll |-> bestLL])
  /\ UNCHANGED <<tree, fromBL, dated, rand, saved, hist, transfers, chance,
                 search, searchStateBestLL, isDated, thorough,
                 unsuccessfulTrials, restored>>
  /\ UNCHANGED rooting
  /\ UNCHANGED selecting
  /\ UNCHANGED scalars
  /\ UNCHANGED observing
  /\ UNCHANGED perturbation
  /\ UNCHANGED parallel

TreesOf(L) == {Relabel(p[1]) : p \in Shapes(L)}

RECURSIVE LeavesUnder(_, _)
LeavesUnder(t, x) ==
  IF IsLeaf(t, x) THEN 1
  ELSE LeavesUnder(t, t.left[x]) + LeavesUnder(t, t.right[x])

\* The dating search reads the parent of a node and whether it is a leaf,
\* never which child is the left one: of the trees that differ by an exchange
\* of children, those with the larger subtree on the left stand for all.
\* (The root search does tell left from right; there these trees are a
\* sample.)
SearchTrees(L) ==
  {t \in TreesOf(L) :
     \A x \in Inner(t) : LeavesUnder(t, t.left[x]) >= LeavesUnder(t, t.right[x])}

\* the evaluators of the repeated calls, as tables of the datings: the score
\* of one transfer, from the left child of an inner node to an inner node,
\* that some dating of the tree permits and some other forbids
DatingEvaluators(t) ==
  {ev \in {Evaluator("table", <<>>, <<>>,
                     [rk \in Datings(t) |->
                        getTransferScore(t, rk, OneTransfer(t, t.left[x], d, MaxCount))]) :
             x \in Inner(t), d \in Inner(t)} :
     \E r1, r2 \in Datings(t) : ev.table[r1] # ev.table[r2]}

\* DatedTree::DatedTree on a tree of the set ts
ConstructOn(ts, useBLs) ==
  /\ tree \in ts
  /\ fromBL = useBLs
  /\ orderedSpeciations \in SpeciationOrders(tree, fromBL)
  /\ ranks = AssignRanks(orderedSpeciations, ZeroRanks(tree), 0)
  /\ pc = "idle"
  /\ toAdd = <<>>
  /\ currentRank = 0
  /\ hasBackup = FALSE
  /\ backup = ranks
  /\ backupOrd = orderedSpeciations
  /\ lastOp = Op("DatedTree", 0, 0, TRUE)
  /\ preRanks = ranks
  /\ preOrd = orderedSpeciations
  /\ upValid = FALSE
  /\ upRanks = ranks
  /\ upOrd = orderedSpeciations
  /\ oobRead = FALSE
  /\ transfers = <<>>

\* a dated tree large enough for perturbateDates to move it, in some dating,
\* and a deterministic evaluator
InitOptimizeDates ==
  /\ ConstructOn(SearchTrees(MaxLeaves + 1), TRUE)
  /\ target = <<>>
  /\ prob = <<0, 1>>
  /\ scorer \in DatingEvaluators(tree)
  /\ NoSearch
  /\ searchStateBestLL = computeLikelihood(tree, scorer, ranks)
  /\ isDated \in BOOLEAN
  /\ thorough \in BOOLEAN
  /\ unsuccessfulTrials = 0
  /\ returned = <<>>
  /\ restored = FALSE
  /\ NoRootSearch
  /\ NoBestDatings
  /\ NoScalars
  /\ NoObserving
  /\ NoPerturbation
  /\ NoParallel

\* the same call, again and again
NextOptimizeDates ==
  \/ OptimizeDatesBegin(thorough)
  \/ OptimizeDatesTrial
  \/ OptimizeDatesReturn

SpecOptimizeDates == InitOptimizeDates /\ [][NextOptimizeDates]_vars

\* ------------------------------------------------------- the root search
\* The root operators of SpeciesTreeOperator.  direction is in 0 .. 3:
\* direction % 2 = 1 names the left child c of the root, 0 the right one;
\* direction \div 2 = 1 names the left child g of c, 0 the right one.  The
\* root moves to c: c keeps g on the side c was on, the old root takes the
\* other side of c and, in the place of c, the other child of c.
Child(t, x, isLeft) == IF isLeft THEN t.left[x] ELSE t.right[x]

\* SpeciesTreeOperator::canChangeRoot
canChangeRoot(t, direction) ==
  ~IsLeaf(t, Child(t, t.root, direction % 2 = 1))

\* SpeciesTreeOperator::changeRoot
changeRoot(t, direction) ==
  LET left1 == direction % 2 = 1
      left2 == direction \div 2 = 1
      r == t.root
      c == Child(t, r, left1)
      g == Child(t, c, left2)
      s == Child(t, c, ~left2)
  IN [n |-> t.n,
      root |-> c,
      parent |-> [x \in Nodes(t) |->
                    IF x = c THEN Nil
                    ELSE IF x = r THEN c
                    ELSE IF x = s THEN r
                    ELSE t.parent[x]],
      left |-> [x \in Nodes(t) |->
                  IF x = c THEN (IF left1 THEN g ELSE r)
                  ELSE IF x = r /\ left2 THEN s
                  ELSE IF x = r THEN Child(t, r, ~left1)
                  ELSE t.left[x]],
      right |-> [x \in Nodes(t) |->
                   IF x = c THEN (IF left1 THEN r ELSE g)
                   ELSE IF x = r /\ ~left2 THEN s
                   ELSE IF x = r THEN Child(t, r, ~left1)
                   ELSE t.right[x]]]

\* SpeciesTreeOperator::revertChangeRoot
revertChangeRoot(t, direction) == changeRoot(t, 3 - direction)

\* optimizeDates as one step, from the state cur of its loop: the states it
\* can return in
RECURSIVE optimizeDatesFrom(_, _, _, _)
optimizeDatesFrom(t, ev, cur, th) ==
  IF ~(th /\ cur.unsuccessfulTrials < 2) THEN {cur}
  ELSE UNION {
    optimizeDatesFrom(t, ev,
      LET after == TrialDating(s.bestLL, cur.bestLL, s, cur.ranks)
      IN [ord |-> after.ord, ranks |-> after.ranks,
          bestLL |-> Max(s.bestLL, cur.bestLL),
          stateLL |-> s.stateLL,
          unsuccessfulTrials |->
            IF s.bestLL > cur.bestLL THEN 0 ELSE cur.unsuccessfulTrials + 1],
      th) :
    s \in {optimizeDatesLocal(t, ev, d.ord, d.ranks, TRUE, cur.stateLL) :
             d \in perturbateDates(t, Dating(cur.ord, cur.ranks), <<1, 10>>)}}

\* optimizeDates as one step: the datings it can leave, with the value
\* returned (bestLL) and searchState.bestLL
optimizeDates(t, ev, evIsDated, d, th, stateLL) ==
  LET ll == computeLikelihood(t, ev, d.ranks)
      told == betterTreeCallback(TRUE, stateLL, ll)
      s == optimizeDatesLocal(t, ev, d.ord, d.ranks, TRUE, told)
  IN IF ~evIsDated
     THEN {[ord |-> d.ord, ranks |-> d.ranks, bestLL |-> ll, stateLL |-> told,
            unsuccessfulTrials |-> 0]}
     ELSE optimizeDatesFrom(t, ev,
            [ord |-> s.ord, ranks |-> s.ranks, bestLL |-> s.bestLL,
             stateLL |-> s.stateLL, unsuccessfulTrials |-> 0], th)

\* the datings changeRoot can leave the tree t in: those of
\* DatedTree::updateSpeciationOrderAndRanks
DatingsOf(t, useBLs) ==
  {Dating(o, AssignRanks(o, ZeroRanks(t), 0)) : o \in SpeciationOrders(t, useBLs)}

\* rootSearchAux: the local vector moves
MovesOnOneSide(last) == <<last % 2, last % 2>>

Moves(last) == <<last % 2, 2 + (last % 2)>>

\* a call of rootSearchAux: the index of the loop over moves, the parameters
\* bestLLStack and maxDepth, and the local backup of the turn under way
Frame(i, bestLLStack, depth, bk) ==
  [i |-> i, bestLLStack |-> bestLLStack, maxDepth |-> depth, backup |-> bk]

\* history of a call of rootSearchAux: the tree, the dating, movesHistory
\* and the depth of the evaluator's rollback stack at its entry, and whether
\* it was made after a move that scored more than bestLLStack
Called(f, t, o, rk, moves, depth, improved) ==
  [i |-> f.i, bestLLStack |-> f.bestLLStack, maxDepth |-> f.maxDepth,
   backup |-> f.backup,
   entered |-> [tree |-> t, ord |-> o, ranks |-> rk, movesHistory |-> moves,
                depth |-> depth],
   improved |-> improved]

\* what the evaluator and the tree are called with around a move
Call(name, direction) == [call |-> name, direction |-> direction]

\* rootSearchAux: the calls before the optimisation of the dates
Rooting(direction) ==
  <<Call("pushRollback", direction), Call("getBackup", direction),
    Call("changeRoot", direction)>>

\* rootSearchAux: the calls after the recursive call, the rollback left out
UnrootingNoRollback(direction) ==
  <<Call("revertChangeRoot", direction), Call("restoreDates", direction)>>

\* rootSearchAux: the calls after the recursive call
Unrooting(direction) ==
  <<Call("revertChangeRoot", direction), Call("restoreDates", direction),
    Call("popAndApplyRollback", direction)>>

RECURSIVE RollbacksFrom(_, _, _)
\* the rollbacks pushed and not yet popped after the calls of ev from the
\* i-th on, open being those before it; <<Nil>> once a pop met no push
RollbacksFrom(ev, i, open) ==
  IF i > Len(ev) \/ open = <<Nil>> THEN open
  ELSE IF ev[i].call = "pushRollback"
  THEN RollbacksFrom(ev, i + 1, Append(open, ev[i].direction))
  ELSE IF ev[i].call = "popAndApplyRollback"
  THEN IF open = <<>> THEN <<Nil>>
       ELSE RollbacksFrom(ev, i + 1, SubSeq(open, 1, Len(open) - 1))
  ELSE RollbacksFrom(ev, i + 1, open)

Rollbacks(ev) == RollbacksFrom(ev, 1, <<>>)

\* the values rootSearch gets for maxDepth: 1, MaxDepth, and a depth
\* larger than the bound a first improving move sets
Depths == {1, MaxDepth, MaxDepth + 2}

Last(h) == h[Len(h)]

Pop(h) == SubSeq(h, 1, Len(h) - 1)

\* rootSearchAux: the call has a move left to try
Active(f) == Len(movesHistory) <= f.maxDepth /\ f.i < 2

\* rootSearch: the moves of bestMovesHistory applied at the end, all but the
\* first, which names the side the search started on
AllMoves(h) == h

BestMoves(h) == SubSeq(h, 2, Len(h))

RECURSIVE changeRoots(_, _)
changeRoots(t, moves) ==
  IF moves = <<>> THEN t
  ELSE changeRoots(changeRoot(t, moves[1]), SubSeq(moves, 2, Len(moves)))

\* rootSearch, up to the first call of rootSearchAux
RootSearchBegin(depth, far) ==
  /\ pc = "idle"
  /\ lastOp.op = "DatedTree"
  /\ pc' = "rootSearch"
  /\ farFromPlausible' = far
  /\ maxDepth' = depth
  /\ initialRootLL' = computeLikelihood(tree, scorer, ranks)
  /\ bestLL' = initialRootLL'
  /\ movesHistory' = <<1>>
  /\ bestMovesHistory' = <<>>
  /\ bestDatedBackup' = ranks
  /\ stack' = <<Called(Frame(0, initialRootLL', depth, ranks), tree,
                        orderedSpeciations, ranks, <<1>>, 0, FALSE)>>
  /\ events' = <<>>
  /\ entry' = [tree |-> tree, ord |-> orderedSpeciations, ranks |-> ranks,
               ll |-> initialRootLL']
  /\ measured' = [tree |-> tree, ranks |-> ranks]
  /\ visited' = {}
  /\ lastOp' = Op("rootSearch", depth, 0, FALSE)
  /\ UNCHANGED <<tree, fromBL, dated, rand, saved, preRanks, preOrd, upValid,
                 upRanks, upOrd, oobRead, transfers, chance, scorer, initialItLL,
                 searchRank, entryLL, probedLL, accepted, rejected, optimizing>>
  /\ UNCHANGED selecting
  /\ UNCHANGED scalars
  /\ UNCHANGED received
  /\ UNCHANGED perturbation
  /\ UNCHANGED parallel

\* rootSearchAux: a move canChangeRoot refuses
RootSearchSkip ==
  /\ pc = "rootSearch"
  /\ Active(Last(stack))
  /\ ~canChangeRoot(tree, Moves(Last(movesHistory))[Last(stack).i + 1])
  /\ stack' = [stack EXCEPT ![Len(stack)].i = @ + 1]
  /\ UNCHANGED <<tree, fromBL, dated, pc, rand, saved, hist, transfers, chance,
                 search, optimizing, farFromPlausible, maxDepth, initialRootLL,
                 movesHistory, bestMovesHistory, bestDatedBackup, entry, measured,
                 visited>>
  /\ UNCHANGED selecting
  /\ UNCHANGED scalars
  /\ UNCHANGED observing
  /\ UNCHANGED perturbation
  /\ UNCHANGED parallel

\* rootSearchAux: a move, up to the recursive call
RootSearchMove ==
  /\ pc = "rootSearch"
  /\ Active(Last(stack))
  /\ LET direction == Moves(Last(movesHistory))[Last(stack).i + 1]
         moved == changeRoot(tree, direction)
         history == Append(movesHistory, direction)
     IN /\ canChangeRoot(tree, direction)
        /\ \E d \in DatingsOf(moved, fromBL) :
             \E s \in optimizeDates(moved, scorer, isDated, d, ~farFromPlausible,
                                    searchStateBestLL) :
               LET ll == computeLikelihood(moved, scorer, s.ranks)
                   better == ll > Last(stack).bestLLStack
                   bestLLStack == IF better THEN ll ELSE Last(stack).bestLLStack
                   newMaxDepth == IF better THEN Len(history) + 2
                                  ELSE Last(stack).maxDepth
               IN /\ tree' = moved
                  /\ orderedSpeciations' = s.ord
                  /\ ranks' = s.ranks
                  /\ searchStateBestLL' = s.stateLL
                  /\ movesHistory' = history
                  /\ events' = events \o Rooting(direction)
                  /\ stack' = Append(
                       [stack EXCEPT ![Len(stack)].bestLLStack = bestLLStack,
                                     ![Len(stack)].backup = ranks],
                       Called(Frame(0, bestLLStack, newMaxDepth, s.ranks), moved,
                              s.ord, s.ranks, history,
                              Len(Rollbacks(events \o Rooting(direction))), better))
                  /\ visited' = visited \cup {[tree |-> moved, ll |-> ll]}
                  /\ IF ll > bestLL
                     THEN /\ bestLL' = ll
                          /\ bestMovesHistory' = history
                          /\ bestDatedBackup' = s.ranks
                          /\ measured' = [tree |-> moved, ranks |-> s.ranks]
                     ELSE UNCHANGED <<bestLL, bestMovesHistory, bestDatedBackup,
                                      measured>>
  /\ UNCHANGED <<fromBL, pc, rand, saved, hist, transfers, chance, scorer,
                 initialItLL, searchRank, entryLL, probedLL, accepted, rejected,
                 isDated, thorough, unsuccessfulTrials, returned, restored,
                 farFromPlausible, maxDepth, initialRootLL, entry>>
  /\ UNCHANGED selecting
  /\ UNCHANGED scalars
  /\ UNCHANGED received
  /\ UNCHANGED perturbation
  /\ UNCHANGED parallel

\* rootSearchAux: the return of a recursive call and the end of the turn
RootSearchBack ==
  /\ pc = "rootSearch"
  /\ ~Active(Last(stack))
  /\ Len(stack) > 1
  /\ LET back == restoreDates(orderedSpeciations, stack[Len(stack) - 1].backup)
     IN /\ tree' = revertChangeRoot(tree, Last(movesHistory))
        /\ orderedSpeciations' = back.ord
        /\ ranks' = back.ranks
  /\ events' = events \o Unrooting(Last(movesHistory))
  /\ movesHistory' = Pop(movesHistory)
  /\ stack' = [Pop(stack) EXCEPT ![Len(stack) - 1].i = @ + 1]
  /\ UNCHANGED <<fromBL, pc, rand, saved, hist, transfers, chance, search,
                 optimizing, farFromPlausible, maxDepth, initialRootLL,
                 bestMovesHistory, bestDatedBackup, entry, measured, visited>>
  /\ UNCHANGED selecting
  /\ UNCHANGED scalars
  /\ UNCHANGED received
  /\ UNCHANGED perturbation
  /\ UNCHANGED parallel

\* rootSearch: the second call of rootSearchAux
RootSearchSecond ==
  /\ pc = "rootSearch"
  /\ ~Active(Last(stack))
  /\ Len(stack) = 1
  /\ movesHistory = <<1>>
  /\ movesHistory' = <<0>>
  /\ stack' = <<Called(Frame(0, initialRootLL, maxDepth, ranks), tree,
                        orderedSpeciations, ranks, <<0>>, Len(Rollbacks(events)),
                        FALSE)>>
  /\ UNCHANGED <<tree, fromBL, dated, pc, rand, saved, hist, transfers, chance,
                 search, optimizing, farFromPlausible, maxDepth, initialRootLL,
                 bestMovesHistory, bestDatedBackup, entry, measured, visited>>
  /\ UNCHANGED selecting
  /\ UNCHANGED scalars
  /\ UNCHANGED observing
  /\ UNCHANGED perturbation
  /\ UNCHANGED parallel

\* rootSearch, from the return of the second call on
RootSearchReturn ==
  /\ pc = "rootSearch"
  /\ ~Active(Last(stack))
  /\ Len(stack) = 1
  /\ movesHistory = <<0>>
  /\ LET best == changeRoots(tree, BestMoves(bestMovesHistory))
         back == restoreDates(orderedSpeciations, bestDatedBackup)
     IN /\ tree' = best
        /\ orderedSpeciations' = back.ord
        /\ ranks' = back.ranks
  /\ stack' = <<>>
  /\ pc' = "idle"
  /\ lastOp' = Op("rootSearch", maxDepth, 0, TRUE)
  /\ UNCHANGED <<fromBL, rand, saved, preRanks, preOrd, upValid, upRanks, upOrd,
                 oobRead, transfers, chance, search, optimizing, farFromPlausible,
                 maxDepth, initialRootLL, movesHistory, bestMovesHistory,
                 bestDatedBackup, entry, measured, visited>>
  /\ UNCHANGED selecting
  /\ UNCHANGED scalars
  /\ UNCHANGED observing
  /\ UNCHANGED perturbation
  /\ UNCHANGED parallel

\* where the root of t can be
Rootings(t) ==
  {{LeafSet(t, x), Leaves(t) \ LeafSet(t, x)} : x \in Nodes(t) \ {t.root}}

\* the undated evaluators of the root search: a fixed score for each root,
\* MaxScore at one, 1 at another and 0 elsewhere
RootEvaluators(t) ==
  {Evaluator("root", <<>>, <<>>,
             [r \in Rootings(t) |-> IF r = a THEN MaxScore ELSE IF r = b THEN 1 ELSE 0]) :
     a \in Rootings(t), b \in Rootings(t)}

\* the dated evaluators of the root search: the score of one transfer
\* between inner nodes
DatedRootEvaluators(t) ==
  {Evaluator("transfer", <<>>, OneTransfer(t, u[1], u[2], MaxCount), <<>>) :
          u \in {v \in Inner(t) \X Inner(t) : v[1] # v[2]}}

\* a tree with an evaluator of its kind: dated both, or undated both
InitRootSearch ==
  /\ \/ /\ ConstructOn(UNION {SearchTrees(L) : L \in 2 .. RootLeaves}, TRUE)
        /\ scorer \in DatedRootEvaluators(tree)
     \/ /\ ConstructOn(SearchTrees(MaxLeaves + 1), FALSE)
        /\ scorer \in RootEvaluators(tree)
  /\ target = <<>>
  /\ prob = <<0, 1>>
  /\ NoSearch
  /\ searchStateBestLL = computeLikelihood(tree, scorer, ranks)
  /\ isDated = fromBL
  /\ thorough = FALSE
  /\ unsuccessfulTrials = 0
  /\ returned = <<>>
  /\ restored = FALSE
  /\ NoRootSearch
  /\ NoBestDatings
  /\ NoScalars
  /\ NoObserving
  /\ NoPerturbation
  /\ NoParallel

NextRootSearch ==
  \/ \E depth \in Depths, far \in BOOLEAN : RootSearchBegin(depth, far)
  \/ RootSearchSkip
  \/ RootSearchMove
  \/ RootSearchBack
  \/ RootSearchSecond
  \/ RootSearchReturn

SpecRootSearch == InitRootSearch /\ [][NextRootSearch]_vars

\* ------------------------------------------------------ the best datings
\* DatedTree::randomize as one step: the datings it ends in with a positive
\* probability
randomize(t, o, rk) ==
  {d \in DatingsOf(t, TRUE) :
     randomizeChance(t, RandomizeState(<<t.root>>, 0, o, rk), d)[1] > 0}

\* getTransferScore of every dating of t
TransferScores(t, freq) ==
  [rk \in {d.ranks : d \in DatingsOf(t, TRUE)} |-> getTransferScore(t, rk, freq)]

\* TransferScoreEvaluator, its computeLikelihood read from the table scores
fakeEvaluator(freq, scores) == Evaluator("table", <<>>, freq, scores)

\* getBestDatingsFromReconciliation: perturbation, as numerator and
\* denominator (maxTrials = 20)
Perturbation(trials) == <<trials + 1, 20>>

\* perturbateDates, one perturbation: the datings it can leave, for every
\* maxDisplacement the trials of getBestDatingsFromReconciliation come to and
\* every dating of t
PerturbedTable(t) ==
  LET N == getInnerNodeNumber(t)
  IN [D \in {maxDisplacement(N, Perturbation(k)) : k \in 0 .. 19} |->
        [d \in DatingsOf(t, TRUE) |-> perturbateDatesFrom(t, {d}, N, D, 1)]]

RECURSIVE perturbateDatesBy(_, _, _)
\* perturbateDates: the datings the tree can be in after i more
\* perturbations, each read from the table step
perturbateDatesBy(step, ds, i) ==
  IF i = 0 THEN ds
  ELSE perturbateDatesBy(step, UNION {step[d] : d \in ds}, i - 1)

\* perturbateDates(t, d, p), read from the table of t
perturbateDatesIn(table, t, d, p) ==
  LET N == getInnerNodeNumber(t)
  IN perturbateDatesBy(table[maxDisplacement(N, p)], {d}, perturbations(N, p))

\* std::sort(scoredBackups.rbegin(), scoredBackups.rend()): the orders it can
\* leave, entries of equal score in any order
SortBackwards(list) ==
  {sorted \in {[k \in 1 .. Len(list) |-> list[f[k]]] :
                 f \in {g \in [1 .. Len(list) -> 1 .. Len(list)] :
                          \A i, j \in 1 .. Len(list) : i # j => g[i] # g[j]}} :
     \A i, j \in 1 .. Len(list) : i < j => ~(sorted[i].score < sorted[j].score)}

ScoredBackup(bk, score) == [backup |-> bk, score |-> score]

\* getBestDatingsFromReconciliation: scoredBackups.resize(toTake)
Resize(sorted, take) == SubSeq(sorted, 1, take)

\* getBestDatingsFromReconciliation: the entry sb once its dating got the
\* likelihood ll
NotRescored(sb, ll) == sb

Rescored(sb, ll) == [sb EXCEPT !.score = ll]

\* getBestDatingsFromReconciliation, the loop over the entries kept, from
\* the k-th on: each backup is restored and scored by the evaluator
RECURSIVE Rescoring(_, _, _, _, _)
Rescoring(t, ev, d, list, k) ==
  IF k > Len(list) THEN [dating |-> d, list |-> list]
  ELSE LET back == restoreDates(d.ord, list[k].backup)
       IN Rescoring(t, ev, Dating(back.ord, back.ranks),
                    [list EXCEPT ![k] = Rescored(list[k],
                                                 computeLikelihood(t, ev, back.ranks))],
                    k + 1)

\* getBestDatingsFromReconciliation: the dating it returns in, d being the
\* one the rescoring left and bk the backup taken at entry
DatingAsRescored(d, bk) == d

DatingOnReturn(d, bk) ==
  LET back == restoreDates(d.ord, bk) IN Dating(back.ord, back.ranks)

\* getBestDatingsFromReconciliation, up to the loop over the restarts
\* the listeners of the species tree: objects given to addListener; the
\* TransferScoreEvaluator is given to none
Listeners == {"evaluator"}

\* the calls an evaluator gets where its methods are called without the
\* species tree in between
NotifiedDirectly(ev) == {<<ev, "onSpeciesDatesChange">>}

\* speciesTree.onSpeciesDatesChange(): the calls the listeners get when the
\* dates change during a search scored by ev
Notified(ev) == {<<l, "onSpeciesDatesChange">> : l \in Listeners}

\* the methods an evaluator calls on itself: TransferScoreEvaluator's
\* computeLikelihood returns computeLikelihoodFast()
Delegated(ev) ==
  IF ev = "fakeEvaluator" THEN {<<ev, "computeLikelihoodFast">>} ELSE {}

\* optimizeDatesLocal: the calls made with evaluator ev
LocalSearchCalls(ev) ==
  {<<ev, "isVerbose">>, <<ev, "computeLikelihood">>} \cup Delegated(ev)
    \cup Notified(ev)

\* the methods of TransferScoreEvaluator that do not assert
Supported == {"computeLikelihood", "computeLikelihoodFast", "isVerbose"}

BestDatingsBegin(test, take) ==
  /\ pc = "idle"
  /\ lastOp.op = "DatedTree"
  /\ toTest' = test
  /\ toTake' = take
  /\ pc' = IF take <= test THEN "bestDatings" ELSE "aborted"
  /\ reconciliationDatingBackup' = ranks
  /\ scoredBackups' = <<>>
  /\ tested' = 0
  /\ lastOp' = Op("getBestDatingsFromReconciliation", test, take, FALSE)
  /\ Remember("getBestDatingsFromReconciliation", test)
  /\ UNCHANGED <<tree, fromBL, dated, rand, saved, oobRead, transfers, chance,
                 search, optimizing, rooting, transferInformation, bestScore,
                 candidates, perturbed,
                 transferScores, randomized>>
  /\ UNCHANGED scalars
  /\ received' = {<<"evaluator", "isVerbose">>, <<"evaluator", "getTransferInformation">>}
  /\ UNCHANGED events
  /\ UNCHANGED perturbation
  /\ UNCHANGED parallel

\* a restart: randomize and the first local search
BestDatingsRestart ==
  /\ pc = "bestDatings"
  /\ tested < toTest
  /\ IF ~fromBL
     THEN /\ pc' = "aborted"
          /\ UNCHANGED <<dated, bestScore, unsuccessfulTrials>>
     ELSE \E d \in randomized :
            LET s == optimizeDatesLocal(tree, fakeEvaluator(transferInformation, transferScores),
                                        d.ord, d.ranks, FALSE, 0)
            IN /\ orderedSpeciations' = s.ord
               /\ ranks' = s.ranks
               /\ bestScore' = s.bestLL
               /\ unsuccessfulTrials' = 0
               /\ pc' = "bestDatingsTrials"
  /\ UNCHANGED <<tree, fromBL, rand, saved, hist, transfers, chance, search,
                 searchStateBestLL, isDated, thorough, returned, restored, rooting,
                 toTest, toTake, transferInformation, reconciliationDatingBackup,
                 scoredBackups, tested, candidates, perturbed,
                 transferScores, randomized>>
  /\ UNCHANGED scalars
  /\ received' = received \cup LocalSearchCalls("fakeEvaluator")
  /\ UNCHANGED events
  /\ UNCHANGED perturbation
  /\ UNCHANGED parallel

\* a trial of a restart: a perturbation and a local search
BestDatingsTrial ==
  /\ pc = "bestDatingsTrials"
  /\ unsuccessfulTrials < 20
  /\ hasBackup' = TRUE
  /\ backup' = ranks
  /\ backupOrd' = orderedSpeciations
  /\ \E s \in {optimizeDatesLocal(tree, fakeEvaluator(transferInformation, transferScores),
                                   d.ord, d.ranks, FALSE, 0) :
                  d \in perturbateDatesIn(perturbed, tree,
                                          Dating(orderedSpeciations, ranks),
                                          Perturbation(unsuccessfulTrials))} :
       LET after == TrialDating(s.bestLL, bestScore, s, backup')
       IN /\ orderedSpeciations' = after.ord
          /\ ranks' = after.ranks
          /\ IF s.bestLL > bestScore
             THEN /\ bestScore' = s.bestLL
                  /\ unsuccessfulTrials' = 0
             ELSE /\ unsuccessfulTrials' = unsuccessfulTrials + 1
                  /\ UNCHANGED bestScore
  /\ UNCHANGED <<tree, fromBL, pc, rand, hist, transfers, chance, search,
                 searchStateBestLL, isDated, thorough, returned, restored, rooting,
                 toTest, toTake, transferInformation, reconciliationDatingBackup,
                 scoredBackups, tested, candidates, perturbed,
                 transferScores, randomized>>
  /\ UNCHANGED scalars
  /\ received' = received \cup Notified("fakeEvaluator") \cup LocalSearchCalls("fakeEvaluator")
  /\ UNCHANGED events
  /\ UNCHANGED perturbation
  /\ UNCHANGED parallel

\* the end of a restart: its dating and its score are kept
BestDatingsPush ==
  /\ pc = "bestDatingsTrials"
  /\ ~(unsuccessfulTrials < 20)
  /\ scoredBackups' = Append(scoredBackups, ScoredBackup(ranks, bestScore))
  /\ candidates' = Append(candidates, ScoredBackup(ranks, bestScore))
  /\ tested' = tested + 1
  /\ pc' = "bestDatings"
  /\ UNCHANGED <<tree, fromBL, dated, rand, saved, hist, transfers, chance, search,
                 optimizing, rooting, toTest, toTake, transferInformation,
                 reconciliationDatingBackup, bestScore, perturbed,
                 transferScores, randomized>>
  /\ UNCHANGED scalars
  /\ UNCHANGED observing
  /\ UNCHANGED perturbation
  /\ UNCHANGED parallel

\* getBestDatingsFromReconciliation, from the first sort on
BestDatingsReturn ==
  /\ pc = "bestDatings"
  /\ ~(tested < toTest)
  /\ \E sorted \in SortBackwards(scoredBackups) :
       LET rescoring == Rescoring(tree, scorer, Dating(orderedSpeciations, ranks),
                                  Resize(sorted, toTake), 1)
           back == DatingOnReturn(rescoring.dating, reconciliationDatingBackup)
       IN /\ scoredBackups' \in SortBackwards(rescoring.list)
          /\ orderedSpeciations' = back.ord
          /\ ranks' = back.ranks
  /\ pc' = "idle"
  /\ lastOp' = Op("getBestDatingsFromReconciliation", toTest, toTake, TRUE)
  /\ UNCHANGED <<tree, fromBL, rand, saved, preRanks, preOrd, upValid, upRanks,
                 upOrd, oobRead, transfers, chance, search, optimizing, rooting,
                 toTest, toTake, transferInformation, reconciliationDatingBackup,
                 tested, bestScore, candidates, perturbed,
                 transferScores, randomized>>
  /\ UNCHANGED scalars
  /\ received' = received \cup {<<"evaluator", "computeLikelihood">> : k \in 1 .. toTake}
  /\ UNCHANGED events
  /\ UNCHANGED perturbation
  /\ UNCHANGED parallel

\* frequencies with two counted transfers that no dating permits both: to
\* the inner node b from under the inner node a, counted once, and back,
\* counted MaxCount times
TwoTransfers(t, a, b) ==
  [count |-> [from \in Nodes(t) |->
                [to \in Nodes(t) |->
                   IF from = t.left[a] /\ to = b THEN 1
                   ELSE IF from = t.left[b] /\ to = a THEN MaxCount
                   ELSE 0]],
   idToLabel |-> [id \in Nodes(t) |-> id]]

\* what getTransferInformation can give: no transfer at all, or two
\* transfers between inner nodes that the datings of t order both ways
TransferInformation(t) ==
  {OneTransfer(t, 0, 0, 0)}
  \cup {TwoTransfers(t, u[1], u[2]) :
          u \in {v \in Inner(t) \X Inner(t) :
                   \E d1, d2 \in DatingsOf(t, TRUE) :
                      /\ d1.ranks[v[1]] < d1.ranks[v[2]]
                      /\ d2.ranks[v[2]] < d2.ranks[v[1]]}}

\* a dated tree, the transfers of its reconciliation, and the evaluator
\* whose likelihood is the higher the closer the dating is to the one of
\* entry
InitBestDatings ==
  /\ tree \in SearchTrees(MaxLeaves)
  /\ perturbed = PerturbedTable(tree)
  /\ ConstructOn({tree}, TRUE)
  /\ randomized = randomize(tree, orderedSpeciations, ranks)
  /\ target = <<>>
  /\ prob = <<0, 1>>
  /\ scorer = Evaluator("target", ranks, <<>>, <<>>)
  /\ NoSearch
  /\ searchStateBestLL = 0
  /\ isDated = TRUE
  /\ thorough = FALSE
  /\ unsuccessfulTrials = 0
  /\ returned = <<>>
  /\ restored = FALSE
  /\ NoRootSearch
  /\ toTest = 0
  /\ toTake = 0
  /\ transferInformation \in TransferInformation(tree)
  /\ transferScores = TransferScores(tree, transferInformation)
  /\ reconciliationDatingBackup = <<>>
  /\ scoredBackups = <<>>
  /\ tested = 0
  /\ bestScore = 0
  /\ candidates = <<>>
  /\ NoScalars
  /\ NoObserving
  /\ NoPerturbation
  /\ NoParallel

NextBestDatings ==
  \/ \E test \in 0 .. MaxTest, take \in 0 .. MaxTest : BestDatingsBegin(test, take)
  \/ BestDatingsRestart
  \/ BestDatingsTrial
  \/ BestDatingsPush
  \/ BestDatingsReturn

SpecBestDatings == InitBestDatings /\ [][NextBestDatings]_vars

\* ------------------------------------------- the ids of the frequencies
\* the same transfers under other ids: the id i standing for what perm[i]
\* stood for, in the rows and the columns of count and in idToLabel
PermuteIds(frequencies, perm) ==
  [count |-> [from \in DOMAIN frequencies.count |->
                [to \in DOMAIN frequencies.count |->
                   frequencies.count[perm[from]][perm[to]]]],
   idToLabel |-> [id \in DOMAIN frequencies.idToLabel |->
                    frequencies.idToLabel[perm[id]]]]

\* the permutation of the ids 0 .. N - 1 that exchanges i and j and then
\* moves every id up by k, modulo N
ExchangeAndRotate(N, i, j, k) ==
  [id \in 0 .. N - 1 |->
     ((IF id = i THEN j ELSE IF id = j THEN i ELSE id) + k) % N]

\* the frequencies get their ids permuted
PermuteFrequencies(i, j, k) ==
  /\ pc = "idle"
  /\ lastOp.op = "DatedTree"
  /\ transferInformation' =
       PermuteIds(transferInformation, ExchangeAndRotate(tree.n, i, j, k))
  /\ tested' = tested + 1
  /\ lastOp' = Op("getTransferScore", i, j, TRUE)
  /\ UNCHANGED <<tree, fromBL, pc, dated, rand, saved, preRanks, preOrd, upValid,
                 upRanks, upOrd, oobRead, transfers, chance, search, optimizing,
                 rooting, toTest, toTake, reconciliationDatingBackup, scoredBackups,
                 bestScore, candidates, perturbed, transferScores, randomized>>
  /\ UNCHANGED scalars
  /\ UNCHANGED observing
  /\ UNCHANGED perturbation
  /\ UNCHANGED parallel

\* a dated tree, transfer frequencies over its species and their score
InitPermute ==
  /\ ConstructOn(SearchTrees(MaxLeaves - 1), TRUE)
  /\ target = <<>>
  /\ prob = <<0, 1>>
  /\ scorer = Evaluator("target", ranks, <<>>, <<>>)
  /\ NoSearch
  /\ searchStateBestLL = 0
  /\ isDated = TRUE
  /\ thorough = FALSE
  /\ unsuccessfulTrials = 0
  /\ returned = <<>>
  /\ restored = FALSE
  /\ NoRootSearch
  /\ toTest = 0
  /\ toTake = 0
  /\ transferInformation \in
       TransferInformation(tree)
       \cup {OneTransfer(tree, e, d, c) :
               e \in Nodes(tree), d \in Inner(tree), c \in {1, MaxCount}}
  /\ reconciliationDatingBackup = <<>>
  /\ scoredBackups = <<>>
  /\ tested = 0
  /\ bestScore = getTransferScore(tree, ranks, transferInformation)
  /\ candidates = <<>>
  /\ perturbed = <<>>
  /\ transferScores = <<>>
  /\ randomized = {}
  /\ NoScalars
  /\ NoObserving
  /\ NoPerturbation
  /\ NoParallel

NextPermute ==
  \E i, j, k \in Nodes(tree) : i <= j /\ PermuteFrequencies(i, j, k)

SpecPermute == InitPermute /\ [][NextPermute]_vars

\* ------------------------------------- the local search running on
\* a dated tree of 2 .. MaxLeaves - 1 leaves in some dating and an evaluator
\* of its datings
InitFairLocalSearch ==
  /\ ConstructOn(UNION {SearchTrees(L) : L \in 2 .. MaxLeaves - 1}, TRUE)
  /\ target = <<>>
  /\ prob = <<0, 1>>
  /\ scorer \in Evaluators(tree)
  /\ NoSearch
  /\ NoCalls

\* the call runs on: a step that can be taken is taken
FairLocalSearch ==
  InitFairLocalSearch /\ [][NextLocalSearch]_vars /\ WF_vars(NextLocalSearch)

\* ------------------------------------------- getTransferScore on workers
\* ParallelContext::getBegin(N) on worker rank of W
getBegin(N, rank, W) == (rank * N) \div W

\* ParallelContext::getEnd(N) on worker rank of W
getEnd(N, rank, W) == Min(N, ((rank + 1) * N) \div W)

RECURSIVE ScoreRow(_, _, _, _, _)
\* getTransferScore, the loop over to, from <<from, to>> on: what the counts
\* of the transfers that the dating permits add to score
ScoreRow(t, rk, frequencies, from, to) ==
  LET N == Cardinality(DOMAIN frequencies.count)
      labelToId == getLabelToId(t)
      count == frequencies.count[from][to]
      src == labelToId[frequencies.idToLabel[from]]
      dest == labelToId[frequencies.idToLabel[to]]
  IN IF to >= N THEN 0
     ELSE IF count # 0 /\ canTransferUnderRelDated(t, rk, src, dest)
     THEN (count + ScoreRow(t, rk, frequencies, from, to + 1)) % UIntMod
     ELSE ScoreRow(t, rk, frequencies, from, to + 1)

RECURSIVE ScoreRows(_, _, _, _, _)
\* getTransferScore, the loop over from: score after the rows from .. end - 1
ScoreRows(t, rk, frequencies, from, end) ==
  IF from >= end THEN 0
  ELSE (ScoreRow(t, rk, frequencies, from, 0)
        + ScoreRows(t, rk, frequencies, from + 1, end)) % UIntMod

\* getTransferScore before the reduction, the ranges forgotten: every worker
\* sums all the rows
localTransferScoreAll(t, rk, frequencies, rank, W) ==
  ScoreRows(t, rk, frequencies, 0, Cardinality(DOMAIN frequencies.count))

\* getTransferScore before the reduction, on worker rank of W
localTransferScore(t, rk, frequencies, rank, W) ==
  LET N == Cardinality(DOMAIN frequencies.count)
  IN ScoreRows(t, rk, frequencies, getBegin(N, rank, W), getEnd(N, rank, W))

RECURSIVE sumUInt(_, _)
\* ParallelContext::sumUInt: the sum of the values of the workers 0 .. W - 1
sumUInt(scores, W) ==
  IF W = 0 THEN 0 ELSE (sumUInt(scores, W - 1) + scores[W - 1]) % UIntMod

\* transfer frequencies with counts in every row
Dense(t, shift) ==
  [count |-> [from \in Nodes(t) |->
                [to \in Nodes(t) |-> (from + 2 * to + shift) % (MaxCount + 1)]],
   idToLabel |-> [id \in Nodes(t) |-> id]]

\* getTransferScore is entered on W workers
ParallelBegin(W) ==
  /\ pc = "idle"
  /\ pc' = "getTransferScore"
  /\ workers' = W
  /\ localScores' = [rank \in 0 .. W - 1 |-> Nil]
  /\ reduced' = 0
  /\ lastOp' = Op("getTransferScore", W, 0, Nil)
  /\ UNCHANGED <<tree, fromBL, dated, rand, saved, preRanks, preOrd, upValid,
                 upRanks, upOrd, oobRead, transfers, chance, search, optimizing,
                 rooting, selecting>>
  /\ UNCHANGED scalars
  /\ UNCHANGED observing
  /\ UNCHANGED perturbation

\* a worker runs its loops, in any order with the others
WorkerScore(rank) ==
  /\ pc = "getTransferScore"
  /\ rank \in DOMAIN localScores
  /\ localScores[rank] = Nil
  /\ localScores' = [localScores EXCEPT ![rank] =
       localTransferScore(tree, ranks, transferInformation, rank, workers)]
  /\ UNCHANGED <<tree, fromBL, pc, dated, rand, saved, preRanks, preOrd, upValid,
                 upRanks, upOrd, oobRead, transfers, chance, lastOp, search,
                 optimizing, rooting, selecting, workers, reduced>>
  /\ UNCHANGED scalars
  /\ UNCHANGED observing
  /\ UNCHANGED perturbation

\* ParallelContext::sumUInt(score) once every worker has reached it, and
\* the return
ParallelSum ==
  /\ pc = "getTransferScore"
  /\ \A rank \in DOMAIN localScores : localScores[rank] # Nil
  /\ reduced' = sumUInt(localScores, workers)
  /\ pc' = "idle"
  /\ lastOp' = Op("getTransferScore", workers, 0, reduced')
  /\ UNCHANGED <<tree, fromBL, dated, rand, saved, preRanks, preOrd, upValid,
                 upRanks, upOrd, oobRead, transfers, chance, search, optimizing,
                 rooting, selecting, workers, localScores>>
  /\ UNCHANGED scalars
  /\ UNCHANGED observing
  /\ UNCHANGED perturbation

\* dated trees of 2 .. MaxLeaves - 1 leaves with transfer frequencies
InitParallel ==
  /\ ConstructOn(UNION {SearchTrees(L) : L \in 2 .. MaxLeaves - 1}, TRUE)
  /\ target = <<>>
  /\ prob = <<0, 1>>
  /\ scorer = Evaluator("target", ranks, <<>>, <<>>)
  /\ NoSearch
  /\ searchStateBestLL = 0
  /\ isDated = TRUE
  /\ thorough = FALSE
  /\ unsuccessfulTrials = 0
  /\ returned = <<>>
  /\ restored = FALSE
  /\ NoRootSearch
  /\ toTest = 0
  /\ toTake = 0
  /\ transferInformation \in
       TransferInformation(tree) \cup {Dense(tree, shift) : shift \in 0 .. MaxCount}
  /\ reconciliationDatingBackup = <<>>
  /\ scoredBackups = <<>>
  /\ tested = 0
  /\ bestScore = 0
  /\ candidates = <<>>
  /\ perturbed = <<>>
  /\ transferScores = <<>>
  /\ randomized = {}
  /\ NoScalars
  /\ NoObserving
  /\ NoPerturbation
  /\ NoParallel

NextParallel ==
  \/ \E W \in 1 .. MaxWorkers : ParallelBegin(W)
  \/ \E rank \in 0 .. MaxWorkers - 1 : WorkerScore(rank)
  \/ ParallelSum

SpecParallel == InitParallel /\ [][NextParallel]_vars

\* ----------------------------------------------------------- ScaledValue
\* NULL_SCALER = INT_MAX / 2 - 1
NULL_SCALER == 1073741822

\* JS_SCALE_FACTOR = 2^ScaleBits, JS_SCALE_THRESHOLD = 2^-ScaleBits
ScaleBits == 256

\* the doubles taken for value are m * 2^e with m in 0 .. MaxMantissa
MaxMantissa == 2

\* a double m * 2^e, m odd, or zero: <<0, 0>>
RECURSIVE Double(_, _)
Double(m, e) ==
  IF m = 0 THEN <<0, 0>>
  ELSE IF m % 2 = 0 THEN Double(m \div 2, e + 1)
  ELSE <<m, e>>

RECURSIVE Pow2(_)
Pow2(k) == IF k = 0 THEN 1 ELSE 2 * Pow2(k - 1)

\* the exponents of the doubles drawn: any two of them are either at most 2
\* apart, so that sums of small mantissas are exact, or more than 60 apart,
\* so that the smaller summand is rounded away; the same holds once some of
\* them are raised by ScaleBits
Exponents == {0 - 600, 0 - 512, 0 - 257, 0 - 256, 0 - 255, 0}

\* x < y on doubles with mantissas below 2^16
DoubleLess(x, y) ==
  IF x[1] = 0 THEN y[1] > 0
  ELSE IF y[1] = 0 THEN FALSE
  ELSE IF x[2] - y[2] > 16 THEN FALSE
  ELSE IF y[2] - x[2] > 16 THEN TRUE
  ELSE LET lo == Min(x[2], y[2])
       IN x[1] * Pow2(x[2] - lo) < y[1] * Pow2(y[2] - lo)

\* x + y in double arithmetic
DoubleSum(x, y) ==
  IF x[1] = 0 THEN y
  ELSE IF y[1] = 0 THEN x
  ELSE IF x[2] - y[2] > 16 THEN x
  ELSE IF y[2] - x[2] > 16 THEN y
  ELSE LET lo == Min(x[2], y[2])
       IN Double(x[1] * Pow2(x[2] - lo) + y[1] * Pow2(y[2] - lo), lo)

\* x * JS_SCALE_FACTOR, exact for the doubles at hand
DoubleScaled(x) == IF x[1] = 0 THEN x ELSE <<x[1], x[2] + ScaleBits>>

JS_SCALE_THRESHOLD == <<1, 0 - ScaleBits>>

\* ScaledValue(v, s)
ScaledValue(v, s) == [value |-> v, scaler |-> s]

\* ScaledValue::isNull
isNull(x) == x.value[1] = 0

\* ScaledValue::checkNull
checkNull(x) == IF x.value[1] = 0 THEN [x EXCEPT !.scaler = NULL_SCALER] ELSE x

\* ScaledValue::scale, were it to scale until the value is large enough
RECURSIVE scaleFully(_)
scaleFully(x) ==
  IF DoubleLess(x.value, JS_SCALE_THRESHOLD) /\ x.value[1] # 0
  THEN scaleFully(ScaledValue(DoubleScaled(x.value), x.scaler + 1))
  ELSE IF x.value[1] = 0 THEN ScaledValue(x.value, NULL_SCALER)
  ELSE x

\* ScaledValue::scale
scale(x) ==
  IF DoubleLess(x.value, JS_SCALE_THRESHOLD)
  THEN checkNull(ScaledValue(DoubleScaled(x.value), x.scaler + 1))
  ELSE x

\* ScaledValue::operator+, the operand of the larger scaler winning
operatorPlusLarger(x, v) ==
  IF v.scaler = x.scaler THEN ScaledValue(DoubleSum(v.value, x.value), x.scaler)
  ELSE IF v.scaler > x.scaler THEN v
  ELSE x

\* ScaledValue::operator+
operatorPlus(x, v) ==
  IF v.scaler = x.scaler THEN ScaledValue(DoubleSum(v.value, x.value), x.scaler)
  ELSE IF v.scaler < x.scaler THEN v
  ELSE x

\* ScaledValue::operator+=
operatorPlusAssign(x, v) ==
  IF v.scaler = x.scaler THEN [x EXCEPT !.value = DoubleSum(x.value, v.value)]
  ELSE IF v.scaler < x.scaler THEN [x EXCEPT !.value = v.value, !.scaler = v.scaler]
  ELSE x

\* ScaledValue::operator<, a null value below every value
operatorLessNullFirst(x, v) ==
  IF isNull(x) THEN TRUE
  ELSE IF x.scaler # v.scaler THEN x.scaler > v.scaler
  ELSE DoubleLess(x.value, v.value)

\* ScaledValue::operator<
operatorLess(x, v) ==
  IF isNull(x) THEN ~isNull(v)
  ELSE IF x.scaler # v.scaler THEN x.scaler > v.scaler
  ELSE DoubleLess(x.value, v.value)

\* ScaledValue::operator>=
operatorGreaterEq(x, v) == ~operatorLess(x, v)

\* the ScaledValues drawn: the doubles of small mantissa at the exponents
\* above, under a few scalers; zero also without NULL_SCALER, as
\* ScaledValue(0.0) gives it
ScaledValues ==
  {ScaledValue(Double(m, e), s) :
     m \in 0 .. MaxMantissa, e \in Exponents, s \in {0, 1, 2, NULL_SCALER}}

\* the tree and the searches, which no operator of ScaledValue touches
NoTreeTouched ==
  UNCHANGED <<tree, fromBL, dated, pc, rand, saved, hist, transfers, chance, search,
              optimizing, rooting, selecting>>

\* an operator of ScaledValue called on thisValue, which it leaves alone
Operator(name, r) ==
  /\ scalarOp = "none"
  /\ scalarOp' = name
  /\ result' = r
  /\ prevValue' = thisValue
  /\ UNCHANGED <<thisValue, otherValue>>
  /\ NoTreeTouched
  /\ UNCHANGED observing
  /\ UNCHANGED perturbation
  /\ UNCHANGED parallel

OperatorPlus == Operator("+", operatorPlus(thisValue, otherValue))

OperatorLess == Operator("<", operatorLess(thisValue, otherValue))

OperatorGreaterEq == Operator(">=", operatorGreaterEq(thisValue, otherValue))

OperatorPlusAssign ==
  /\ scalarOp = "none"
  /\ scalarOp' = "+="
  /\ thisValue' = operatorPlusAssign(thisValue, otherValue)
  /\ result' = thisValue'
  /\ prevValue' = thisValue
  /\ UNCHANGED otherValue
  /\ NoTreeTouched
  /\ UNCHANGED observing
  /\ UNCHANGED perturbation
  /\ UNCHANGED parallel

\* scale(), called once or twice in a row
Scale ==
  /\ scalarOp = "none" \/ (scalarOp = "scale" /\ result = 1)
  /\ scalarOp' = "scale"
  /\ thisValue' = scale(thisValue)
  /\ result' = IF scalarOp = "none" THEN 1 ELSE 2
  /\ prevValue' = thisValue
  /\ UNCHANGED otherValue
  /\ NoTreeTouched
  /\ UNCHANGED observing
  /\ UNCHANGED perturbation
  /\ UNCHANGED parallel

\* two ScaledValues, beside a tree that no operator touches
InitScaled ==
  /\ ConstructOn(SearchTrees(2), TRUE)
  /\ target = <<>>
  /\ prob = <<0, 1>>
  /\ scorer = <<>>
  /\ NoSearch
  /\ searchStateBestLL = 0
  /\ isDated = TRUE
  /\ thorough = FALSE
  /\ unsuccessfulTrials = 0
  /\ returned = <<>>
  /\ restored = FALSE
  /\ NoRootSearch
  /\ NoBestDatings
  /\ thisValue \in ScaledValues
  /\ otherValue \in ScaledValues
  /\ result = <<>>
  /\ prevValue = thisValue
  /\ scalarOp = "none"
  /\ NoObserving
  /\ NoPerturbation
  /\ NoParallel

NextScaled ==
  \/ OperatorPlus
  \/ OperatorPlusAssign
  \/ OperatorLess
  \/ OperatorGreaterEq
  \/ Scale

SpecScaled == InitScaled /\ [][NextScaled]_vars

\* ------------------------------------------- perturbateDates, move by move
\* perturbateDates: where a failed move leaves the loops, were it to end the
\* loop over j only
BreakInner(draw, k, j) == [k |-> k, j |-> draw.displacement]

\* perturbateDates: where a failed move leaves the loops (k = nodesToMove,
\* j = displacement)
BreakBoth(draw, k, j) == [k |-> draw.nodesToMove, j |-> draw.displacement]

\* the values perturbateDates is called with, as numerator and denominator:
\* the one of optimizeDates and two of getBestDatingsFromReconciliation
Perturbations == {<<1, 10>>, <<1, 2>>, <<3, 4>>}

\* perturbateDates, up to the loop over the perturbations
PerturbateDatesBegin(p) ==
  /\ pc = "idle"
  /\ lastOp.op = "DatedTree"
  /\ pc' = "perturbateDates"
  /\ perturbing' = [left |-> perturbations(getInnerNodeNumber(tree), p),
                    maxDisplacement |-> maxDisplacement(getInnerNodeNumber(tree), p),
                    active |-> FALSE, draw |-> <<>>, k |-> 0, j |-> 0,
                    moved |-> 0, failedAt |-> 0, wrapped |-> FALSE]
  /\ lastOp' = Op("perturbateDates", p[1], p[2], FALSE)
  /\ Remember("perturbateDates", 0)
  /\ UNCHANGED <<tree, fromBL, dated, rand, saved, oobRead, transfers, chance, search,
                 scalars, observing, optimizing, rooting, selecting>>
  /\ UNCHANGED parallel

\* a turn of the loop over the perturbations, up to the loops over k and j
PerturbateDatesDraw ==
  /\ pc = "perturbateDates"
  /\ ~perturbing.active
  /\ perturbing.left > 0
  /\ \E draw \in Draws(getInnerNodeNumber(tree), perturbing.maxDisplacement) :
       perturbing' = [perturbing EXCEPT !.left = @ - 1, !.active = TRUE,
                                        !.draw = draw, !.k = 0, !.j = 0,
                                        !.moved = 0, !.failedAt = 0]
  /\ UNCHANGED <<tree, fromBL, dated, pc, rand, saved, hist, transfers, chance, search,
                 scalars, observing, optimizing, rooting, selecting>>
  /\ UNCHANGED parallel

\* a turn of the loop over j: a move, and the tests of the two loops
PerturbateDatesMove ==
  /\ pc = "perturbateDates"
  /\ perturbing.active
  /\ LET draw == perturbing.draw
         arg == IF draw.isUp THEN draw.rank + perturbing.k - perturbing.j
                ELSE draw.rank - perturbing.k + perturbing.j
         ok == IF draw.isUp
               THEN moveUp(tree, orderedSpeciations, ranks, arg % UIntMod)
               ELSE moveDown(tree, orderedSpeciations, ranks, arg % UIntMod)
         at == IF ok.ret THEN [k |-> perturbing.k, j |-> perturbing.j]
               ELSE BreakBoth(draw, perturbing.k, perturbing.j)
         k == IF at.j + 1 < draw.displacement THEN at.k ELSE at.k + 1
         j == IF at.j + 1 < draw.displacement THEN at.j + 1 ELSE 0
     IN /\ orderedSpeciations' = ok.ord
        /\ ranks' = ok.ranks
        /\ oobRead' = (oobRead \/ ok.oob)
        /\ perturbing' =
             [perturbing EXCEPT !.k = k, !.j = j, !.active = (k < draw.nodesToMove),
                                !.moved = @ + 1,
                                !.failedAt = IF ~ok.ret /\ @ = 0
                                             THEN perturbing.moved + 1 ELSE @,
                                !.wrapped = @ \/ arg < 0]
  /\ UNCHANGED <<tree, fromBL, pc, rand, saved, lastOp, preRanks, preOrd, upValid,
                 upRanks, upOrd, transfers, chance, search,
                 scalars, observing, optimizing, rooting, selecting>>
  /\ UNCHANGED parallel

\* perturbateDates, after the loop over the perturbations
PerturbateDatesReturn ==
  /\ pc = "perturbateDates"
  /\ ~perturbing.active
  /\ perturbing.left = 0
  /\ pc' = "idle"
  /\ lastOp' = [lastOp EXCEPT !.ret = TRUE]
  /\ UNCHANGED <<tree, fromBL, dated, rand, saved, preRanks, preOrd, upValid, upRanks,
                 upOrd, oobRead, transfers, chance, search, perturbation,
                 scalars, observing, optimizing, rooting, selecting>>
  /\ UNCHANGED parallel

\* a dated tree in some dating
InitPerturbate ==
  /\ ConstructOn(UNION {SearchTrees(L) : L \in 2 .. MaxLeaves - 1}, TRUE)
  /\ target = <<>>
  /\ prob = <<0, 1>>
  /\ scorer = <<>>
  /\ NoSearch
  /\ NoCalls

NextPerturbate ==
  \/ \E p \in Perturbations : PerturbateDatesBegin(p)
  \/ PerturbateDatesDraw
  \/ PerturbateDatesMove
  \/ PerturbateDatesReturn

SpecPerturbate == InitPerturbate /\ [][NextPerturbate]_vars

\* ---------------------------------------------------------------- claims
\* no call of the DatedTree is in progress
Returned == pc # "randomize"

InnerNumber == getInnerNodeNumber(tree)

\* every non-root node has a larger rank than its parent
ParentBeforeChild ==
  \A c \in Nodes(tree) :
    tree.parent[c] # Nil => ranks[tree.parent[c]] < ranks[c]

\* ranks is the inverse of orderedSpeciations
RanksInverse ==
  \A x \in Nodes(tree) :
    ranks[x] \in DOMAIN orderedSpeciations /\ orderedSpeciations[ranks[x]] = x

\* C1: on a dated tree, whatever moveUp / moveDown calls were made, with
\* whatever unsigned arguments, every non-root node has a rank larger than
\* its parent's.
C1_ParentBeforeChild == (fromBL /\ Returned) => ParentBeforeChild

\* C1 witness: a moveDown has swapped two nodes of a dated tree
C1_Witness ==
  fromBL /\ lastOp.op = "moveDown" /\ lastOp.ret /\ ranks # preRanks

\* C2: after construction and after every moveUp, moveDown, randomize and
\* restore returns, orderedSpeciations[ranks[n]] = n for every node n.
C2_RanksInverse == Returned => RanksInverse

\* C2 witness: a restore has changed the ranks
C2_Witness == lastOp.op = "restore" /\ ranks # preRanks /\ Returned

\* C3: in both modes the first I positions of orderedSpeciations hold the
\* inner nodes, position 0 holds the root, and the leaves come after them.
C3_InnerNodesFirst ==
  Returned =>
    /\ orderedSpeciations[0] = tree.root
    /\ \A i \in DOMAIN orderedSpeciations :
         IsLeaf(tree, orderedSpeciations[i]) <=> i >= InnerNumber

\* C4: when moveUp(r) returns true, a moveUp(r) that follows it at once
\* returns true and leaves ranks and orderedSpeciations as they were before
\* the first call.
C4_MoveUpTwice ==
  upValid => lastOp.ret /\ ranks = upRanks /\ orderedSpeciations = upOrd

\* C4 witness: the second of two moveUp(r), the first of which changed the order
C4_Witness == upValid /\ preOrd # upOrd /\ lastOp.arg > 1

\* C5: restore(b) gives ranks and orderedSpeciations the values they had when
\* the backup b was taken, whatever moveUp, moveDown and randomize calls
\* came in between.
C5_RestoreBackup ==
  lastOp.op = "restore" => ranks = backup /\ orderedSpeciations = backupOrd

\* C5 witness: a restore that undoes a change of the order
C5_Witness ==
  lastOp.op = "restore" /\ preOrd # orderedSpeciations /\ preRanks # ranks

\* the test the claim C6 states for moveDown(rank), on the state before the call
C6_MaySwap(rank) ==
  /\ rank + 1 < tree.n - 1
  /\ ~IsLeaf(tree, preOrd[rank])
  /\ ~IsLeaf(tree, preOrd[rank + 1])
  /\ tree.parent[preOrd[rank + 1]] # preOrd[rank]

\* C6: moveDown(rank) returns true, swapping the nodes at rank and rank + 1
\* and their two ranks and nothing else, exactly when both are inner nodes,
\* rank + 1 < |orderedSpeciations| - 1 and the second is not a child of the
\* first; otherwise it returns false and changes nothing; it never reads
\* outside the vectors.
C6_MoveDown ==
  (fromBL /\ lastOp.op = "moveDown") =>
    /\ ~oobRead
    /\ lastOp.ret <=> C6_MaySwap(lastOp.arg)
    /\ IF C6_MaySwap(lastOp.arg)
       THEN /\ orderedSpeciations =
                 [preOrd EXCEPT ![lastOp.arg] = preOrd[lastOp.arg + 1],
                                ![lastOp.arg + 1] = preOrd[lastOp.arg]]
            /\ ranks = [preRanks EXCEPT ![preOrd[lastOp.arg]] = lastOp.arg + 1,
                                        ![preOrd[lastOp.arg + 1]] = lastOp.arg]
       ELSE orderedSpeciations = preOrd /\ ranks = preRanks

\* C6 witness: a moveDown has returned true
C6_Witness == fromBL /\ lastOp.op = "moveDown" /\ lastOp.ret

\* C6, second witness: a moveDown with the largest unsigned rank returned false
C6_WitnessLargeRank ==
  fromBL /\ lastOp.op = "moveDown" /\ lastOp.arg = UIntMod - 1 /\ ~lastOp.ret

\* C7: canTransferUnderRelDated(e, d) is false when d = e, true when e is the
\* root and d # e, and otherwise true exactly when rank(d) > rank(parent(e));
\* for a fixed e it is monotone in rank(d).
C7_CanTransfer ==
  lastOp.op = "canTransferUnderRelDated" =>
    /\ \A e \in Nodes(tree), d \in Nodes(tree) :
         transfers[e, d] <=>
           /\ d # e
           /\ e = tree.root \/ ranks[d] > ranks[tree.parent[e]]
    /\ \A e \in Nodes(tree), d \in Nodes(tree), d2 \in Nodes(tree) :
         (transfers[e, d] /\ ranks[d2] > ranks[d] /\ d2 # e) => transfers[e, d2]

\* C7 witness: on a dated tree a transfer is refused between two distinct
\* nodes, and one is allowed from a node that is not the root to an inner node
C7_Witness ==
  /\ lastOp.op = "canTransferUnderRelDated"
  /\ fromBL
  /\ \E e \in Nodes(tree), d \in Nodes(tree) : d # e /\ ~transfers[e, d]
  /\ \E e \in Nodes(tree), d \in Inner(tree) : e # tree.root /\ transfers[e, d]

\* what a randomize that has returned leaves behind
RandomizeResult ==
  /\ ParentBeforeChild
  /\ RanksInverse
  /\ {ranks[x] : x \in Inner(tree)} = 0 .. InnerNumber - 1
  /\ ranks[tree.root] = 0
  /\ \A x \in Leaves(tree) : ranks[x] = preRanks[x]

\* the turns of the loop of randomize still to come: one for every node that
\* is in toAdd or below a node of toAdd
RandomizeTurnsLeft == 2 * (InnerNumber - currentRank) + Len(toAdd)

\* C8: whatever the random choices, randomize() on a dated tree terminates
\* (every turn of its loop uses up one of the finitely many turns left) and
\* leaves every non-root node with a larger rank than its parent, the inner
\* nodes with the distinct ranks 0 .. I-1 and the root with 0, the ranks of
\* the leaves untouched, and ranks the inverse of orderedSpeciations.
C8_Randomize ==
  /\ []((lastOp.op = "randomize" /\ pc = "idle") => RandomizeResult)
  /\ [][pc = "randomize" =>
          /\ RandomizeTurnsLeft' = RandomizeTurnsLeft - 1
          /\ RandomizeTurnsLeft' >= 0
          /\ pc' = "idle" <=> RandomizeTurnsLeft' = 0]_vars

\* C8 witness: a randomize has returned and has changed the dating
C8_Witness ==
  lastOp.op = "randomize" /\ pc = "idle" /\ lastOp.ret /\ ranks # preRanks

RECURSIVE AvailableProduct(_, _)
\* for the order o of the inner nodes: the product, over the ranks k from
\* `from` on, of the number of inner nodes that may take rank k (not ranked
\* below k, and the root or a child of a node ranked below k)
AvailableProduct(o, from) ==
  IF from >= InnerNumber THEN 1
  ELSE LET done == {o[k] : k \in 0 .. from - 1}
           avail == {x \in Inner(tree) \ done :
                       tree.parent[x] = Nil \/ tree.parent[x] \in done}
       IN Cardinality(avail) * AvailableProduct(o, from + 1)

LocalSearchReturned ==
  pc = "idle" /\ lastOp = Op("optimizeDatesLocal", 0, 0, TRUE)

\* C10: with a deterministic scorer, optimizeDatesLocal returns a value >= the
\* score of the dating at entry; the dating left in the tree scores the
\* returned value, and no dating evaluated during the call scored higher.
C10_LocalSearchBest ==
  LocalSearchReturned =>
    /\ bestLL >= entryLL
    /\ computeLikelihood(tree, scorer, ranks) = bestLL
    /\ probedLL <= bestLL
    /\ RanksInverse

\* C10 witness: a call that moved to a better dating, went back from another
\* one, and returned
C10_Witness ==
  LocalSearchReturned /\ accepted /\ rejected /\ bestLL > entryLL

\* optimizeDatesLocal taken as one step ends where its loop, taken turn by
\* turn, ends
LocalSearchAsOneStep ==
  LocalSearchReturned /\ fromBL =>
    LET s == optimizeDatesLocal(tree, scorer, preOrd, preRanks, FALSE, 0)
    IN s.ord = orderedSpeciations /\ s.ranks = ranks /\ s.bestLL = bestLL

\* C11: the values that repeated calls optimizeDates(thorough = true) return
\* with a deterministic evaluator never decrease, and after each call the
\* tree is in a dating that scores the value the call returned
C11_OptimizeDatesMonotone ==
  /\ \A i, j \in DOMAIN returned :
       i < j /\ returned[i].thorough /\ returned[j].thorough
         => returned[i].ll <= returned[j].ll
  /\ pc = "idle" /\ returned # <<>> /\ returned[Len(returned)].thorough
       => computeLikelihood(tree, scorer, ranks) = returned[Len(returned)].ll

\* two thorough calls, the second returning more than the first after undoing
\* a trial that did not improve
C11_Witness ==
  /\ pc = "idle" /\ isDated /\ Len(returned) = 2 /\ restored
  /\ returned[1].thorough /\ returned[2].thorough
  /\ returned[2].ll > returned[1].ll

\* optimizeDates taken as one step can end where its loop, taken trial by
\* trial, ends
OptimizeDatesAsOneStep ==
  pc = "idle" /\ Len(returned) = 1 =>
    \E s \in optimizeDates(tree, scorer, isDated, Dating(preOrd, preRanks), thorough,
                           computeLikelihood(tree, scorer, preRanks)) :
       /\ s.ord = orderedSpeciations /\ s.ranks = ranks
       /\ s.bestLL = returned[1].ll /\ s.stateLL = searchStateBestLL

RootSearchReturned == pc = "idle" /\ lastOp = Op("rootSearch", maxDepth, 0, TRUE)

\* C12: when rootSearch returns, the tree has the root and the dating at
\* which the returned bestLL was computed (the root and the dating of entry
\* when no root visited scored more than the tree at entry), the dating
\* scores bestLL, and bestLL is at least the score at entry
C12_RootSearchBest ==
  RootSearchReturned =>
    /\ tree = measured.tree
    /\ ranks = measured.ranks
    /\ \A i \in DOMAIN orderedSpeciations : ranks[orderedSpeciations[i]] = i
    /\ checkRanks(tree, orderedSpeciations, ranks)
    /\ computeLikelihood(tree, scorer, ranks) = bestLL
    /\ bestLL >= entry.ll
    /\ (\A v \in visited : v.ll <= entry.ll)
         => tree = entry.tree /\ ranks = entry.ranks /\ bestLL = entry.ll

\* a root search of a dated tree that ends two moves away from the root of
\* entry, with a better score
C12_Witness ==
  /\ RootSearchReturned /\ fromBL
  /\ bestLL > entry.ll
  /\ Len(bestMovesHistory) >= 3
  /\ tree # entry.tree

\* a root search that found nothing better
C12_WitnessNoBetter ==
  /\ RootSearchReturned /\ fromBL
  /\ visited # {}
  /\ tree = entry.tree /\ bestLL = entry.ll

RECURSIVE FeasibleChains(_, _, _)
\* the trees that chains of up to k moves lead to from t, each move d one
\* canChangeRoot allows, of the parity of the move before it (last)
FeasibleChains(t, last, k) ==
  IF k = 0 THEN {}
  ELSE UNION {{changeRoot(t, d)} \cup FeasibleChains(changeRoot(t, d), d, k - 1) :
                d \in {x \in 0 .. 3 : x % 2 = last % 2 /\ canChangeRoot(t, x)}}

WithinDepth(k) ==
  FeasibleChains(entry.tree, 0, k) \cup FeasibleChains(entry.tree, 1, k)

\* C18: with maxDepth = 3 and an evaluator that gives each root a fixed
\* score, rootSearch scores every root that a chain of at most 3 feasible
\* moves following the successor rule reaches from the starts [0] and [1],
\* and returns the largest score among the root of entry and the roots it
\* scored
C18_RootSearchDepth3 ==
  RootSearchReturned /\ scorer.kind = "root" /\ maxDepth = 3 =>
    /\ WithinDepth(3) \subseteq {v.tree : v \in visited}
    /\ \A v \in visited : v.ll = scorer.table[RootOf(v.tree)]
    /\ bestLL \in {entry.ll} \cup {v.ll : v \in visited}
    /\ bestLL >= entry.ll
    /\ \A v \in visited : bestLL >= v.ll

\* such a search that scored a better root 3 moves away and left unscored a
\* root 4 moves away
C18_Witness ==
  /\ RootSearchReturned /\ scorer.kind = "root" /\ maxDepth = 3
  /\ bestLL > entry.ll
  /\ Len(bestMovesHistory) = 4
  /\ ~(WithinDepth(4) \subseteq {v.tree : v \in visited})


\* the score read from the table is the one getTransferScore gives
TransferScoreAsComputed ==
  pc \in {"bestDatings", "bestDatingsTrials"} =>
    computeLikelihood(tree, fakeEvaluator(transferInformation, transferScores), ranks)
      = getTransferScore(tree, ranks, transferInformation)

\* the datings kept for randomize are those it can leave the tree in
RandomizedAsComputed ==
  pc = "bestDatings" => randomized = randomize(tree, orderedSpeciations, ranks)

\* perturbateDates read from the table gives what perturbateDates gives
PerturbedAsComputed ==
  pc = "bestDatingsTrials" /\ unsuccessfulTrials < 20 =>
    perturbateDatesIn(perturbed, tree, Dating(orderedSpeciations, ranks),
                      Perturbation(unsuccessfulTrials))
      = perturbateDates(tree, Dating(orderedSpeciations, ranks),
                        Perturbation(unsuccessfulTrials))

\* getBestDatingsFromReconciliation has returned
BestDatingsReturned ==
  pc = "idle" /\ lastOp = Op("getBestDatingsFromReconciliation", toTest, toTake, TRUE)

\* C13: when getBestDatingsFromReconciliation returns, whatever toTake <=
\* toTest it was called with and whatever the restarts drew, ranks and
\* orderedSpeciations are what they were at entry
C13_BestDatingsLeaveTree ==
  BestDatingsReturned =>
    /\ toTake <= toTest
    /\ ranks = preRanks
    /\ orderedSpeciations = preOrd

\* a call that returned after two restarts, both ending in a dating other
\* than the one of entry, one of which it kept
C13_Witness ==
  /\ BestDatingsReturned
  /\ toTest = 2 /\ toTake = 1
  /\ \A k \in DOMAIN candidates : candidates[k].backup # preRanks
  /\ scoredBackups[1].backup # ranks

\* the candidates the entries returned are taken from: as many as returned,
\* none of those left out with a higher surrogate score than one taken
TakenFrom(kept, cands) ==
  \E f \in [DOMAIN kept -> DOMAIN cands] :
     /\ \A i, j \in DOMAIN kept : i # j => f[i] # f[j]
     /\ \A i \in DOMAIN kept : kept[i].backup = cands[f[i]].backup
     /\ \A i \in DOMAIN kept, c \in DOMAIN cands :
          (\A j \in DOMAIN kept : f[j] # c) => cands[c].score <= cands[f[i]].score

\* C14: getBestDatingsFromReconciliation returns toTake entries, in
\* non-increasing order of score; they are the toTake candidates of the
\* highest surrogate score among the toTest generated, each backup is a
\* valid dating of the tree, and each score is the likelihood the original
\* scorer gives the dating of the backup
C14_BestDatingsReturned ==
  BestDatingsReturned =>
    /\ Len(scoredBackups) = toTake
    /\ Len(candidates) = toTest
    /\ \A i, j \in DOMAIN scoredBackups :
         i < j => scoredBackups[i].score >= scoredBackups[j].score
    /\ TakenFrom(scoredBackups, candidates)
    /\ \A i \in DOMAIN scoredBackups :
         LET d == restoreDates(orderedSpeciations, scoredBackups[i].backup)
         IN /\ checkRanks(tree, d.ord, d.ranks)
            /\ scoredBackups[i].score = computeLikelihood(tree, scorer, d.ranks)

\* a call that kept the better one of two candidates of different surrogate
\* scores, and gave it a likelihood that is not its surrogate score
C14_Witness ==
  /\ BestDatingsReturned
  /\ toTest = 2 /\ toTake = 1
  /\ candidates[1].score # candidates[2].score
  /\ \E k \in 1 .. 2 :
       /\ candidates[k].backup = scoredBackups[1].backup
       /\ candidates[k].score > candidates[3 - k].score
       /\ candidates[k].score # scoredBackups[1].score

\* a call that kept both candidates and returned them in the other order,
\* the one of the lower surrogate score having the higher likelihood
C14_WitnessReordered ==
  /\ BestDatingsReturned
  /\ toTest = 2 /\ toTake = 2
  /\ \E k \in 1 .. 2 :
       /\ candidates[k].backup = scoredBackups[1].backup
       /\ candidates[k].score < candidates[3 - k].score
       /\ scoredBackups[1].score > scoredBackups[2].score

\* C15: for a fixed tree and dating, getTransferScore gives the same score
\* once the ids of the frequencies are permuted, rows and columns of count
\* together with idToLabel, every count staying with its pair of labels
C15_TransferScorePermuted ==
  getTransferScore(tree, ranks, transferInformation) = bestScore

\* frequencies of a positive score, their ids permuted so that a counted
\* transfer stands under ids that are not the node indices of its species
C15_Witness ==
  /\ lastOp.op = "getTransferScore"
  /\ bestScore > 0
  /\ \E from, to \in DOMAIN transferInformation.count :
       /\ transferInformation.count[from][to] > 0
       /\ transferInformation.idToLabel[from] # from
       /\ transferInformation.idToLabel[to] # to
       /\ canTransferUnderRelDated(tree, ranks, transferInformation.idToLabel[from],
                                   transferInformation.idToLabel[to])
       /\ ~canTransferUnderRelDated(tree, ranks, from, to)

\* C16: on a DatedTree constructed with useBLs == false, a call of moveUp,
\* moveDown, randomize or canTransferUnderRelDated fails on the assertion
\* of _fromBL: it changes neither ranks nor orderedSpeciations and gives no
\* result
C16_NotDatedAsserts ==
  ~fromBL /\ lastOp.op \in {"moveUp", "moveDown", "randomize", "canTransferUnderRelDated"}
    => /\ pc = "aborted"
       /\ ranks = preRanks
       /\ orderedSpeciations = preOrd
       /\ transfers = <<>>

\* on such a tree moveUp, moveDown and randomize do fail on the assertion
MutatorsAssertDated ==
  ~fromBL /\ lastOp.op \in {"moveUp", "moveDown", "randomize"}
    => /\ pc = "aborted"
       /\ ranks = preRanks
       /\ orderedSpeciations = preOrd

\* on such a tree canTransferUnderRelDated returns, with the value the
\* ranks of the reverse post-order give
TransfersOfUndated ==
  ~fromBL /\ lastOp.op = "canTransferUnderRelDated"
    => /\ pc = "idle"
       /\ \A e, d \in Nodes(tree) :
            transfers[e, d] =
              (d # e /\ (tree.parent[e] = Nil \/ ranks[d] > ranks[tree.parent[e]]))

\* C17: with the scorer minus the sum over the inner nodes x of
\* (rank(x) - target_rank(x))^2, target a valid dating of the tree,
\* optimizeDatesLocal started from any valid dating returns 0 and leaves
\* the tree in the target ordering
C17_LocalSearchReachesTarget ==
  LocalSearchReturned /\ scorer.kind = "target" =>
    /\ bestLL = 0
    /\ ranks = scorer.target
    /\ \A x \in Nodes(tree) : orderedSpeciations[scorer.target[x]] = x

\* a call that started two swaps or more away from the target, moved to
\* better datings, went back from another one, and returned
C17_Witness ==
  /\ LocalSearchReturned /\ scorer.kind = "target"
  /\ entryLL <= 0 - 4
  /\ accepted /\ rejected
  /\ preRanks # ranks

\* C19: for two null ScaledValues a and b, a >= b, which is !(a < b), is
\* false
C19_NullNotGreaterEqNull ==
  scalarOp = ">=" /\ isNull(thisValue) /\ isNull(otherValue) => result = FALSE

\* C19 as the code has it: for two null ScaledValues a and b, a < b is
\* false and a >= b is true, whatever their scalers
C19_NullGreaterEqNull ==
  /\ scalarOp = ">=" /\ isNull(thisValue) /\ isNull(otherValue) => result = TRUE
  /\ scalarOp = "<" /\ isNull(thisValue) /\ isNull(otherValue) => result = FALSE

\* a >= b was called on two null values, one of them without NULL_SCALER
C19_Witness ==
  /\ scalarOp = ">="
  /\ isNull(thisValue) /\ isNull(otherValue)
  /\ thisValue.scaler = NULL_SCALER /\ otherValue.scaler = 0
  /\ result = TRUE

\* C20: a + b and b + a have the same value and scaler, null operands
\* included; with equal scalers the sum has the summed value and that
\* scaler, with different scalers it is the operand of the smaller scaler;
\* a += b leaves in a what a + b returns
C20_PlusCommutesSaturates ==
  /\ scalarOp = "+" =>
       /\ result = operatorPlus(otherValue, thisValue)
       /\ thisValue.scaler = otherValue.scaler =>
            result = ScaledValue(DoubleSum(thisValue.value, otherValue.value),
                                 thisValue.scaler)
       /\ thisValue.scaler < otherValue.scaler => result = thisValue
       /\ otherValue.scaler < thisValue.scaler => result = otherValue
  /\ scalarOp = "+=" =>
       /\ thisValue = operatorPlus(prevValue, otherValue)
       /\ result = thisValue

\* a + b with two values that are not null, the larger one under the larger
\* scaler, which the sum drops
C20_Witness ==
  /\ scalarOp = "+"
  /\ ~isNull(thisValue) /\ ~isNull(otherValue)
  /\ thisValue.scaler < otherValue.scaler
  /\ DoubleLess(thisValue.value, otherValue.value)
  /\ result = thisValue

\* a += b with equal scalers, which changed a
C20_WitnessAssign ==
  /\ scalarOp = "+="
  /\ prevValue.scaler = otherValue.scaler
  /\ thisValue # prevValue

\* C21: after one call of scale() on a ScaledValue of value >= 0, the value
\* is at least JS_SCALE_THRESHOLD or the ScaledValue is null, value 0 under
\* NULL_SCALER; a second call of scale() changes nothing
C21_ScaleOnce ==
  /\ scalarOp = "scale" =>
       \/ ~DoubleLess(thisValue.value, JS_SCALE_THRESHOLD)
       \/ thisValue = ScaledValue(<<0, 0>>, NULL_SCALER)
  /\ scalarOp = "scale" /\ result = 2 => thisValue = prevValue

\* one call of scale() is enough, and a second one changes nothing, when
\* the value is zero or at least JS_SCALE_THRESHOLD squared
ScaleOnceFromSquare ==
  scalarOp = "scale" /\ result = 1
  /\ (isNull(prevValue) \/ ~DoubleLess(prevValue.value, <<1, 0 - 2 * ScaleBits>>))
    => /\ \/ ~DoubleLess(thisValue.value, JS_SCALE_THRESHOLD)
          \/ thisValue = ScaledValue(<<0, 0>>, NULL_SCALER)
       /\ scale(thisValue) = thisValue
       /\ thisValue = scaleFully(prevValue)

\* the dating was changed after the k-th event and not notified since
ChangedSince(k) ==
  \E i \in k + 1 .. Len(events) :
     /\ events[i] \in {"moveUp", "reversal"}
     /\ \A j \in i + 1 .. Len(events) : events[j] # "onSpeciesDatesChange"

\* C22: in optimizeDatesLocal every computeLikelihood after the first comes
\* right after a successful moveUp and the onSpeciesDatesChange that follows
\* it; a probe that was reverted is followed by a notification before the
\* next score call; and the call ends with a notification after the last
\* change of the dating
C22_ScoresSeeNotifiedDates ==
  /\ \A i \in DOMAIN events :
       i > 1 /\ events[i] = "computeLikelihood"
         => /\ events[i - 1] = "onSpeciesDatesChange"
            /\ events[i - 2] = "moveUp"
  /\ \A i, j \in DOMAIN events :
       i < j /\ events[i] = "reversal" /\ events[j] = "computeLikelihood"
         => \E k \in i + 1 .. j - 1 : events[k] = "onSpeciesDatesChange"
  /\ LocalSearchReturned /\ fromBL
       => /\ events[Len(events)] = "onSpeciesDatesChange"
          /\ ~ChangedSince(0)

\* a call that returned after it accepted a move and reverted another one,
\* the last probe being a reverted one
C22_Witness ==
  /\ LocalSearchReturned /\ accepted /\ rejected
  /\ \E i \in DOMAIN events :
       /\ events[i] = "reversal"
       /\ i = Len(events) - 1
  /\ \E i, j \in DOMAIN events :
       i < j /\ events[i] = "reversal" /\ events[j] = "computeLikelihood"

\* the call of perturbateDates has returned
PerturbateDatesReturned ==
  pc = "idle" /\ lastOp.op = "perturbateDates" /\ lastOp.ret

\* C23: whatever perturbation > 0 and whatever the random choices,
\* perturbateDates keeps, and returns with, every parent ranked before its
\* child and ranks the inverse of orderedSpeciations, reads no vector out of
\* its bounds whatever rank it passes, runs floor(2 * N * p) perturbations,
\* and ends each of them at its first failed move
C23_PerturbateKeepsDating ==
  lastOp.op = "perturbateDates" =>
    /\ ParentBeforeChild
    /\ RanksInverse
    /\ checkRanks(tree, orderedSpeciations, ranks)
    /\ ~oobRead
    /\ perturbing.failedAt # 0 =>
         perturbing.moved = perturbing.failedAt /\ ~perturbing.active
    /\ perturbing.left \in 0 .. (2 * InnerNumber * lastOp.arg) \div lastOp.arg2
    /\ PerturbateDatesReturned => perturbing.left = 0

\* perturbateDates taken as one step can end where it ends move by move
PerturbateAsOneStep ==
  PerturbateDatesReturned =>
    Dating(orderedSpeciations, ranks)
      \in perturbateDates(tree, Dating(preOrd, preRanks), <<lastOp.arg, lastOp.arg2>>)

\* no rank passed to moveUp or moveDown wrapped around: the move at rank 0
\* fails before
NoRankWrapped ==
  lastOp.op = "perturbateDates" => ~perturbing.wrapped

\* a call that returned with another dating, its last perturbation ended by
\* a failed move after a move that succeeded
C23_Witness ==
  /\ PerturbateDatesReturned
  /\ ranks # preRanks
  /\ perturbing.failedAt > 1
  /\ perturbing.draw.nodesToMove > 1

\* a call of rootSearchAux is about to return
RootSearchAuxReturns == pc = "rootSearch" /\ ~Active(Last(stack))

\* C24: a call of rootSearchAux returns with the root of the tree, the
\* dating, movesHistory and the depth of the evaluator's rollback stack as
\* they were at its entry; every changeRoot(d) comes right after a
\* pushRollback and the backup, every popAndApplyRollback right after
\* revertChangeRoot(d) and restoreDates, d being the move of the latest
\* pushRollback not yet popped; the stack never underflows and is empty
\* when rootSearch replays the best moves (the calls are added three at a
\* time, so the last three are those no earlier state has shown)
C24_RootSearchAuxRestores ==
  LET open == Rollbacks(events)
  IN  /\ RootSearchAuxReturns =>
           /\ tree = Last(stack).entered.tree
           /\ orderedSpeciations = Last(stack).entered.ord
           /\ ranks = Last(stack).entered.ranks
           /\ movesHistory = Last(stack).entered.movesHistory
           /\ Len(open) = Last(stack).entered.depth
      /\ open # <<Nil>>
      /\ \A i \in DOMAIN events \cap (Len(events) - 2 .. Len(events)) :
           /\ events[i].call = "changeRoot" =>
                /\ i > 2
                /\ events[i - 2] = Call("pushRollback", events[i].direction)
                /\ events[i - 1].call = "getBackup"
           /\ events[i].call = "popAndApplyRollback" =>
                /\ events[i - 1].call = "restoreDates"
                /\ events[i - 2] = Call("revertChangeRoot", events[i].direction)
                /\ Last(Rollbacks(SubSeq(events, 1, i - 1))) = events[i].direction
      /\ pc = "rootSearch" => Len(open) = Len(movesHistory) - 1
      /\ RootSearchReturned => open = <<>>

\* a call of rootSearchAux made three moves away from the root of entry
\* returns, rollbacks pushed and popped before it, the best root found
\* elsewhere
C24_Witness ==
  /\ RootSearchAuxReturns
  /\ Len(movesHistory) = 4
  /\ Len(stack) = 4
  /\ Len(events) > 3 * Len(Rollbacks(events))
  /\ bestMovesHistory # <<>>
  /\ tree # entry.tree

\* C25: a move that scores more than bestLLStack makes the search deeper:
\* the bound |history| + 2 given to the recursive call is at least the bound
\* maxDepth that the call making it has got
C25_ImprovementDeepens ==
  \A k \in 2 .. Len(stack) :
    stack[k].improved => stack[k].maxDepth >= stack[k - 1].maxDepth

\* the bound an improving move gives is the one it had got or more when the
\* history is long enough: maxDepth <= |history| + 2
ImprovementDeepensNearBound ==
  \A k \in 2 .. Len(stack) :
    stack[k].improved /\ stack[k - 1].maxDepth <= Len(stack[k].entered.movesHistory) + 2
      => stack[k].maxDepth >= stack[k - 1].maxDepth

\* C26: all along getBestDatingsFromReconciliation the TransferScoreEvaluator
\* is called with computeLikelihood, computeLikelihoodFast and isVerbose
\* only: none of its asserting methods is reached
C26_SurrogateOnlyScores ==
  \A c \in received : c[1] = "fakeEvaluator" => c[2] \in Supported

\* the call has returned after restarts and trials: the surrogate has
\* scored, the evaluator has given the transfers, rescored the datings taken
\* and, as a listener, was told of the changes of the dates
C26_Witness ==
  /\ BestDatingsReturned
  /\ toTest = MaxTest
  /\ toTake > 0
  /\ {c[2] : c \in {r \in received : r[1] = "fakeEvaluator"}} = Supported
  /\ {c[2] : c \in {r \in received : r[1] = "evaluator"}} =
       {"isVerbose", "getTransferInformation", "computeLikelihood",
        "onSpeciesDatesChange"}

\* the rows of the frequencies that worker rank of W sums
Rows(N, rank, W) == getBegin(N, rank, W) .. getEnd(N, rank, W) - 1

\* the counts of the permitted transfers of the rows in range, summed as
\* the number of units <<from, to, k>> with k <= count[from][to]
PermittedIn(range) ==
  LET N == Cardinality(DOMAIN transferInformation.count)
      labelToId == getLabelToId(tree)
  IN Cardinality(
       {u \in range \X (0 .. N - 1) \X (1 .. MaxCount) :
          /\ u[3] <= transferInformation.count[u[1]][u[2]]
          /\ canTransferUnderRelDated(tree, ranks,
               labelToId[transferInformation.idToLabel[u[1]]],
               labelToId[transferInformation.idToLabel[u[2]]])})

\* getTransferScore has returned on the workers
ParallelReturned ==
  /\ pc = "idle"
  /\ lastOp.op = "getTransferScore"
  /\ lastOp.arg = workers
  /\ lastOp.ret = reduced

\* C27: getTransferScore is the sum of count[from][to] over the pairs with a
\* count whose transfer the dating permits, whatever the number of workers:
\* the ranges [getBegin(N), getEnd(N)) of the workers are disjoint and cover
\* [0, N), each worker's local score is the sum over its own rows, whenever
\* it runs, and the sum of the local scores is the score of one worker over
\* [0, N)
C27_TransferScoreOnWorkers ==
  LET N == Cardinality(DOMAIN transferInformation.count)
  IN /\ pc = "getTransferScore" \/ ParallelReturned =>
          /\ \A r1, r2 \in 0 .. workers - 1 :
                r1 # r2 => Rows(N, r1, workers) \cap Rows(N, r2, workers) = {}
          /\ UNION {Rows(N, r, workers) : r \in 0 .. workers - 1} = 0 .. N - 1
          /\ \A r \in 0 .. workers - 1 :
                localScores[r] # Nil =>
                  localScores[r] = PermittedIn(Rows(N, r, workers))
     /\ ParallelReturned =>
          /\ reduced = PermittedIn(0 .. N - 1)
          /\ reduced = getTransferScore(tree, ranks, transferInformation)
          /\ reduced = localTransferScore(tree, ranks, transferInformation, 0, 1)

\* a call on three workers or more has returned a score that no worker has
\* found alone, one of them having found nothing in its rows
C27_Witness ==
  /\ ParallelReturned
  /\ workers >= 3
  /\ reduced > 0
  /\ \A r \in 0 .. workers - 1 : localScores[r] < reduced
  /\ \E r \in 0 .. workers - 1 : localScores[r] = 0

\* a call on more workers than rows: some worker has an empty range
C27_WitnessIdle ==
  /\ ParallelReturned
  /\ workers > Cardinality(DOMAIN transferInformation.count)
  /\ reduced > 0

\* the most turns of the for loop a call can take: each round but the last
\* accepts a probe, an accepted probe raises bestLL, which is the score of
\* a dating, and costs at most two turns more
TurnsBound ==
  LET acceptances ==
        Cardinality({computeLikelihood(tree, scorer, d.ranks) :
                       d \in DatingsOf(tree, TRUE)}) - 1
  IN (acceptances + 1) * getInnerNodeNumber(tree) + 2 * acceptances

\* C28: optimizeDatesLocal terminates on every tree and every deterministic
\* scorer: a call that has begun on a dated tree returns, after no more
\* turns of the for loop than the scores of the datings allow (a turn is
\* at most four calls: moveUp, the notification, the score, the reversal)
C28_LocalSearchTerminates ==
  /\ (pc = "optimizeDatesLocal" /\ fromBL) ~> LocalSearchReturned
  /\ [](pc = "optimizeDatesLocal" /\ fromBL => Len(events) <= 1 + 4 * TurnsBound)

\* what termination rests on: the rank stays within 0 .. maxRank, an
\* accepted probe raises bestLL and rewinds the rank by min(2, rank), any
\* other turn moves the rank on by one, and bestLL never exceeds the highest
\* score of a dating
LocalSearchProgress ==
  [][pc = "optimizeDatesLocal" /\ pc' = "optimizeDatesLocal" /\ fromBL =>
       /\ searchRank' \in 0 .. getInnerNodeNumber(tree)
       /\ bestLL' >= bestLL
       /\ bestLL' \in {computeLikelihood(tree, scorer, d.ranks) :
                         d \in DatingsOf(tree, TRUE)}
       /\ bestLL' > bestLL =>
            searchRank' = searchRank - Min(2, searchRank) + 1
       /\ bestLL' = bestLL /\ initialItLL' = initialItLL =>
            searchRank' = searchRank + 1
       /\ initialItLL' # initialItLL =>
            /\ initialItLL' = bestLL
            /\ bestLL - initialItLL > 1
            /\ searchRank' = 0]_vars

\* a call has returned after more than one round, having accepted swaps
\* (each rewinding the rank) and reverted others
C28_Witness ==
  /\ LocalSearchReturned
  /\ accepted /\ rejected
  /\ bestLL - entryLL > 1
  /\ initialItLL > entryLL
  /\ getInnerNodeNumber(tree) > 2

\* C29: within optimizeDates, betterTreeCallback raising searchState.bestLL
\* to ll, searchState.bestLL is at least the local bestLL of the hill climb
\* at every probe: betterTreeCallback is called only for swaps that are then
\* accepted, never for one that is reverted
C29_CallbackOnlyForAccepted ==
  pc = "optimizeDates" =>
    \A i \in DOMAIN events :
      /\ events[i].covered
      /\ events[i].called => events[i].accepted

\* the same holds of the first hill climb of optimizeDates, which starts
\* from the dating whose score optimizeDates has told the search state
CallbackOnlyForAcceptedAtFirst ==
  pc = "optimizeDates" /\ unsuccessfulTrials = 0 /\ ~restored /\ ~thorough =>
    \A i \in DOMAIN events :
      /\ events[i].covered
      /\ events[i].called => events[i].accepted

\* a first hill climb has called betterTreeCallback for a swap it accepted
CallbackForAccepted ==
  /\ pc = "optimizeDates" /\ ~thorough
  /\ \E i \in DOMAIN events : events[i].called /\ events[i].accepted

=============================================================================
